---------------------------- MODULE Spec2Model ----------------------------
(***************************************************************************)
(* Model of the ORACE extraction engine of AnalyseEvalNat2025:             *)
(*   - OraceCSVService (src/src/services/oraceCSVService.js), the          *)
(*     flat-file reader,                                                   *)
(*   - OraceService (src/src/services/oraceService.js), the workbook       *)
(*     reader,                                                             *)
(*   - main (src/src/index_csv.js and its sibling orchestrations).         *)
(*                                                                         *)
(* Conventions.                                                            *)
(*   A JavaScript string is a sequence of one-character strings, so that   *)
(*   trim, toLowerCase, includes, replace and parseFloat are computed on   *)
(*   the characters.  Indices are those of the source (0-based); Elt       *)
(*   reads a JavaScript array at such an index.  A number is a fixed-point *)
(*   integer, Echelle units for 1.                                         *)
(***************************************************************************)
EXTENDS Integers, Sequences, FiniteSets, TLC

VARIABLES
    client,      \* the program that runs: "index_csv", "index_pdf" or "index_ods"
    pc,          \* position of main
    lpc,         \* position of loadEcoles: "repos", "boucle", "retour", "exception"
    iConfig,     \* index (0-based) of the next configuration / sheet of the forEach
    ecolesMap,   \* the local Map of loadEcoles, in insertion order
    ecoles,      \* this.ecoles of the ORACE service
    retour,      \* value returned by loadEcoles
    partiels,    \* what each unit processed so far yielded, in processing order
    dernier,     \* outcome of the last unit processed
    etapes,      \* stages of main started so far
    ipsCache,    \* this.ipsCache of the IPS service: null, or the list loaded
    cacheDisque, \* the cache file of the IPS service for the department
    exitCode,    \* process exit status, NUL while the process runs
    entree,      \* the call of a function of the services: its name and arguments
    sortie,      \* what that call returned, once it has returned
    premiere     \* what an earlier call of loadEcoles on the same service left

vars == <<client, pc, lpc, iConfig, ecolesMap, ecoles, retour, partiels,
          dernier, etapes, ipsCache, exitCode, entree, sortie, premiere,
          cacheDisque>>

(***************************************************************************)
(* JavaScript values                                                       *)
(***************************************************************************)

\* 1 in fixed point: three decimal places are kept.
Echelle == 10 * 10 * 10

\* null / undefined where a number is expected (an index, a parsed value).
NUL == 0 - (Echelle * Echelle * Echelle)

\* undefined and null where a string is expected: no string of characters
\* equals them, since their only element is not one character.
Indefini == <<"undefined">>
Nul == <<"null">>

\* array[i] of JavaScript, i 0-based: undefined outside the array.
Elt(tab, i) == IF i >= 0 /\ i < Len(tab) THEN tab[i + 1] ELSE Indefini

\* (x || ""): a falsy string value becomes the empty string.
OuVide(x) == IF x \in {Indefini, Nul, <<>>} THEN <<>> ELSE x

\* array.slice(debut)
Slice(tab, debut) ==
    IF debut >= Len(tab) THEN <<>> ELSE SubSeq(tab, debut + 1, Len(tab))

Min(a, b) == IF a <= b THEN a ELSE b

(***************************************************************************)
(* String.prototype, on sequences of characters                            *)
(***************************************************************************)

Blancs == {" ", "\t"}

Majuscules == <<"A", "B", "C", "D", "E", "F", "G", "H", "I", "J", "K", "L", "M", "N", "O", "P", "Q", "R", "S", "T", "U", "V", "W", "X", "Y", "Z", "É", "È", "Ê", "À", "Â", "Î", "Ï", "Ô", "Ö", "Ù", "Û", "Ç">>
Minuscules == <<"a", "b", "c", "d", "e", "f", "g", "h", "i", "j", "k", "l", "m", "n", "o", "p", "q", "r", "s", "t", "u", "v", "w", "x", "y", "z", "é", "è", "ê", "à", "â", "î", "ï", "ô", "ö", "ù", "û", "ç">>

minuscule(c) ==
    IF \E i \in 1..Len(Majuscules) : Majuscules[i] = c
    THEN Minuscules[CHOOSE i \in 1..Len(Majuscules) : Majuscules[i] = c]
    ELSE c

majuscule(c) ==
    IF \E i \in 1..Len(Minuscules) : Minuscules[i] = c
    THEN Majuscules[CHOOSE i \in 1..Len(Minuscules) : Minuscules[i] = c]
    ELSE c

toLowerCase(s) == [i \in 1..Len(s) |-> minuscule(s[i])]

toUpperCase(s) == [i \in 1..Len(s) |-> majuscule(s[i])]

RECURSIVE trimStart(_)
trimStart(s) ==
    IF Len(s) > 0 /\ s[1] \in Blancs THEN trimStart(Tail(s)) ELSE s

RECURSIVE trimEnd(_)
trimEnd(s) ==
    IF Len(s) > 0 /\ s[Len(s)] \in Blancs
    THEN trimEnd(SubSeq(s, 1, Len(s) - 1))
    ELSE s

trim(s) == trimEnd(trimStart(s))

\* s.indexOf(sub): 0-based position of the first occurrence, -1 if none.
indexOf(s, sub) ==
    LET pos == {i \in 0..(Len(s) - Len(sub)) : SubSeq(s, i + 1, i + Len(sub)) = sub}
    IN  IF pos = {} THEN -1 ELSE CHOOSE i \in pos : \A j \in pos : i <= j

includes(s, sub) == indexOf(s, sub) >= 0

\* s.replace(sub, par) with a string pattern: the first occurrence only.
replace(s, sub, par) ==
    LET i == indexOf(s, sub)
    IN  IF i < 0 THEN s
        ELSE SubSeq(s, 1, i) \o par \o SubSeq(s, i + Len(sub) + 1, Len(s))

\* s.substring(0, n)
substring(s, n) == IF Len(s) <= n THEN s ELSE SubSeq(s, 1, n)

\* s.replace(/[...]/g, par): every character of the class is replaced.
RECURSIVE replaceClasse(_, _, _)
replaceClasse(s, classe, par) ==
    IF s = <<>> THEN <<>>
    ELSE (IF s[1] \in classe THEN par ELSE <<s[1]>>)
         \o replaceClasse(Tail(s), classe, par)

\* s.replace(/\s+/g, "_"): every maximal run of blanks becomes one underscore.
RECURSIVE replaceBlancs(_)
replaceBlancs(s) ==
    IF s = <<>> THEN <<>>
    ELSE IF s[1] \in Blancs
         THEN <<"_">> \o replaceBlancs(trimStart(s))
         ELSE <<s[1]>> \o replaceBlancs(Tail(s))

(***************************************************************************)
(* parseFloat: optional blanks, optional sign, digits, optional point and  *)
(* digits; whatever follows is ignored; NaN when no digit is read.         *)
(***************************************************************************)

Chiffres == <<"0", "1", "2", "3", "4", "5", "6", "7", "8", "9">>

estChiffre(c) == \E i \in 1..Len(Chiffres) : Chiffres[i] = c

valeurChiffre(c) == (CHOOSE i \in 1..Len(Chiffres) : Chiffres[i] = c) - 1

\* number of consecutive digits of s from the 1-based position i
RECURSIVE nbChiffres(_, _)
nbChiffres(s, i) ==
    IF i <= Len(s) /\ estChiffre(s[i]) THEN 1 + nbChiffres(s, i + 1) ELSE 0

\* value of the n digits of s from the 1-based position i
RECURSIVE valeurEntiere(_, _, _)
valeurEntiere(s, i, n) ==
    IF n = 0 THEN 0
    ELSE valeurEntiere(s, i, n - 1) * 10 + valeurChiffre(s[i + n - 1])

RECURSIVE puissance10(_)
puissance10(n) == IF n = 0 THEN 1 ELSE 10 * puissance10(n - 1)

\* number of decimal places of the fixed point
Decimales == CHOOSE n \in 0..9 : puissance10(n) = Echelle

parseFloat(s) ==
    LET t == trimStart(s)
        signe == IF Len(t) > 0 /\ t[1] = "-" THEN -1 ELSE 1
        d == IF Len(t) > 0 /\ t[1] \in {"-", "+"} THEN 2 ELSE 1
        ne == nbChiffres(t, d)
        aPoint == d + ne <= Len(t) /\ t[d + ne] = "."
        nf == IF aPoint THEN nbChiffres(t, d + ne + 1) ELSE 0
        gardes == Min(nf, Decimales)
        fraction == valeurEntiere(t, d + ne + 1, gardes)
                        * puissance10(Decimales - gardes)
    IN  IF ne + nf = 0
        THEN [nan |-> TRUE, val |-> 0]
        ELSE [nan |-> FALSE,
              val |-> signe * (valeurEntiere(t, d, ne) * Echelle + fraction)]

(***************************************************************************)
(* NumericNormalizer and key normalisation (identical in both services)    *)
(***************************************************************************)

\* A faulty parsePourcentage, which returns a fraction as it is written.
parsePourcentageSansFraction(valeur) ==
    IF valeur \in {Nul, Indefini, <<>>} THEN NUL
    ELSE LET sansPct == trim(replace(trim(valeur), <<"%">>, <<>>))
             valeurNum == parseFloat(replace(sansPct, <<",">>, <<".">>))
         IN  IF valeurNum.nan THEN NUL ELSE valeurNum.val

parsePourcentage(valeur) ==
    IF valeur \in {Nul, Indefini, <<>>} THEN NUL
    ELSE LET sansPct == trim(replace(trim(valeur), <<"%">>, <<>>))
             valeurNum == parseFloat(replace(sansPct, <<",">>, <<".">>))
         IN  IF valeurNum.nan THEN NUL
             ELSE IF valeurNum.val > 0 /\ valeurNum.val < Echelle
                  THEN valeurNum.val * 100
                  ELSE valeurNum.val

\* substring(0, 100) of normaliserNomCompetence
LongueurMaxNom == 100

\* A faulty normaliserNomCompetence, which keeps the parentheses.
normaliserNomCompetenceAvecParentheses(nom) ==
    LET a == replaceBlancs(trim(nom))
        c == replaceClasse(a, {"é", "è", "ê"}, <<"e">>)
        d == replaceClasse(c, {"à", "â"}, <<"a">>)
        e == replaceClasse(d, {"î", "ï"}, <<"i">>)
        f == replaceClasse(e, {"ô", "ö"}, <<"o">>)
        g == replaceClasse(f, {"ù", "û"}, <<"u">>)
        h == replaceClasse(g, {"ç"}, <<"c">>)
        i == replaceClasse(h, {"'"}, <<>>)
    IN  substring(i, LongueurMaxNom)

normaliserNomCompetence(nom) ==
    LET a == replaceBlancs(trim(nom))
        b == replaceClasse(a, {"(", ")"}, <<>>)
        c == replaceClasse(b, {"é", "è", "ê"}, <<"e">>)
        d == replaceClasse(c, {"à", "â"}, <<"a">>)
        e == replaceClasse(d, {"î", "ï"}, <<"i">>)
        f == replaceClasse(e, {"ô", "ö"}, <<"o">>)
        g == replaceClasse(f, {"ù", "û"}, <<"u">>)
        h == replaceClasse(g, {"ç"}, <<"c">>)
        i == replaceClasse(h, {"'"}, <<>>)
    IN  substring(i, LongueurMaxNom)

\* `${niveau}_${matiere}_${nomCompetenceNormalise}`
cleCompetence(niveau, matiere, nom) ==
    niveau \o <<"_">> \o matiere \o <<"_">> \o normaliserNomCompetence(nom)

\* Object.assign(cible, source) on results maps (functions from keys to values)
ObjectAssign(cible, source) ==
    [k \in (DOMAIN cible) \cup (DOMAIN source) |->
        IF k \in DOMAIN source THEN source[k] ELSE cible[k]]

\* {} of JavaScript: the results map without any key
ObjetVide == [k \in {} |-> 0]

(***************************************************************************)
(* OraceCSVService: identity, header anchors, first data row               *)
(***************************************************************************)

\* ligne.some(cellule => cellule && pred(cellule.toLowerCase().trim()))
contientMot(ligne, mots) ==
    \E i \in 1..Len(ligne) :
        /\ OuVide(ligne[i]) # <<>>
        /\ \E m \in mots : includes(trim(toLowerCase(ligne[i])), m)

\* A faulty validerIdentification, which looks for "evaluation " alone.
validerIdentificationSansNiveau(ligne1, niveau, matiere) ==
    IF ligne1 = Indefini \/ Len(ligne1) = 0 THEN FALSE
    ELSE contientMot(ligne1, {<<"e", "v", "a", "l", "u", "a", "t", "i", "o", "n", " ">>})

\* A faulty validerIdentification, which reads the first cell only.
validerIdentificationPremiereCellule(ligne1, niveau, matiere) ==
    IF ligne1 = Indefini \/ Len(ligne1) = 0 THEN FALSE
    ELSE LET matiereCode == IF matiere = <<"f", "r", "a", "n", "c", "a", "i", "s">> THEN <<"f", "r">> ELSE <<"m", "a">>
             patternAttendu == <<"e", "v", "a", "l", "u", "a", "t", "i", "o", "n", " ">> \o toLowerCase(niveau) \o matiereCode
         IN  contientMot(<<ligne1[1]>>, {patternAttendu})

validerIdentification(ligne1, niveau, matiere) ==
    IF ligne1 = Indefini \/ Len(ligne1) = 0 THEN FALSE
    ELSE LET matiereCode == IF matiere = <<"f", "r", "a", "n", "c", "a", "i", "s">> THEN <<"f", "r">> ELSE <<"m", "a">>
             patternAttendu == <<"e", "v", "a", "l", "u", "a", "t", "i", "o", "n", " ">> \o toLowerCase(niveau) \o matiereCode
         IN  contientMot(ligne1, {patternAttendu})

\* first and one-past-last row index of the window scanned for the group row
GroupesDebut == 2
GroupesFin == 10

RECURSIVE chercherLigneGroupes(_, _)
chercherLigneGroupes(lignes, i) ==
    IF i >= Min(GroupesFin, Len(lignes)) THEN NUL
    ELSE IF contientMot(Elt(lignes, i), {<<"s", "a", "t", "i", "s", "f", "a", "i", "s", "a", "n", "t">>}) THEN i
         ELSE chercherLigneGroupes(lignes, i + 1)

\* A faulty trouverLigneGroupes, which scans from the first row of the grid.
trouverLigneGroupesDepuisDebut(lignes) == chercherLigneGroupes(lignes, 0)

trouverLigneGroupes(lignes) == chercherLigneGroupes(lignes, GroupesDebut)

MotsPourcentage == {<<"%">>, <<"r", "é", "p", "o", "n", "d", "a", "n", "t", "s">>, <<"r", "e", "p", "o", "n", "d", "a", "n", "t", "s">>}

\* the percentage row is looked for in the rows ligneGroupes+1 .. ligneGroupes+3
FenetrePourcentages == 4

RECURSIVE chercherLignePourcentages(_, _, _)
chercherLignePourcentages(lignes, ligneGroupes, i) ==
    IF i >= Min(ligneGroupes + FenetrePourcentages, Len(lignes)) THEN NUL
    ELSE IF contientMot(Elt(lignes, i), MotsPourcentage) THEN i
         ELSE chercherLignePourcentages(lignes, ligneGroupes, i + 1)

trouverLignePourcentages(lignes, ligneGroupes) ==
    chercherLignePourcentages(lignes, ligneGroupes, ligneGroupes + 1)

\* minimal length of a school identifier, and the default first data row
LongueurMinUAI == 7
PremiereLigneParDefaut == 10

\* A faulty test, which accepts an identifier of any length.
ligneEcoleValideSansLongueur(ligne) ==
    LET uai == trim(OuVide(Elt(ligne, 0)))
        nom == trim(OuVide(Elt(ligne, 1)))
    IN  /\ uai # <<>>
        /\ nom # <<>>
        /\ ~includes(toLowerCase(uai), <<"u", "a", "i">>)
        /\ ~includes(toLowerCase(uai), <<"t", "o", "t", "a", "l">>)
        /\ ~includes(toLowerCase(uai), <<"c", "i", "r", "c", "o", "n", "s", "c", "r", "i", "p", "t", "i", "o", "n">>)

ligneEcoleValide(ligne) ==
    LET uai == trim(OuVide(Elt(ligne, 0)))
        nom == trim(OuVide(Elt(ligne, 1)))
    IN  /\ uai # <<>>
        /\ nom # <<>>
        /\ ~includes(toLowerCase(uai), <<"u", "a", "i">>)
        /\ ~includes(toLowerCase(uai), <<"t", "o", "t", "a", "l">>)
        /\ ~includes(toLowerCase(uai), <<"c", "i", "r", "c", "o", "n", "s", "c", "r", "i", "p", "t", "i", "o", "n">>)
        /\ Len(uai) >= LongueurMinUAI

RECURSIVE chercherPremiereEcole(_, _)
chercherPremiereEcole(lignes, i) ==
    IF i >= Len(lignes) THEN PremiereLigneParDefaut
    ELSE IF ligneEcoleValide(Elt(lignes, i)) THEN i
         ELSE chercherPremiereEcole(lignes, i + 1)

trouverPremiereEcole(lignes, lignePourcentages) ==
    chercherPremiereEcole(lignes, lignePourcentages + 1)

(***************************************************************************)
(* OraceCSVService: competency spans (anchor scan)                         *)
(***************************************************************************)

\* minimal length of a competency title
LongueurMinTitre == 10

MotsMarqueurs == {<<"c", "o", "m", "p", "é", "t", "e", "n", "c", "e">>, <<"e", "x", "e", "r", "c", "i", "c", "e">>, <<"p", "a", "r", "t", "i", "c", "i", "p", "a", "t", "i", "o", "n">>, <<"s", "c", "o", "r", "e", "s">>}

\* the test both services apply to a title cell (texte is already trimmed)
estCompetence(texte) ==
    /\ Len(texte) >= LongueurMinTitre
    /\ \A m \in MotsMarqueurs : ~includes(toLowerCase(texte), m)

\* ÉTAPE 1 of finaliserCompetence: first column of colDebut..colFin whose
\* group cell contains "satisfaisant", NUL if none
RECURSIVE chercherSatisfaisant(_, _, _)
chercherSatisfaisant(ligneGroupes, col, colFin) ==
    IF col > colFin THEN NUL
    ELSE IF includes(trim(toLowerCase(OuVide(Elt(ligneGroupes, col)))),
                     <<"s", "a", "t", "i", "s", "f", "a", "i", "s", "a", "n", "t">>)
         THEN col
         ELSE chercherSatisfaisant(ligneGroupes, col + 1, colFin)

\* ÉTAPE 2 of finaliserCompetence: columns after "satisfaisant" examined
ColonnesApresSatisfaisant == 3

RECURSIVE chercherPourcentage(_, _, _)
chercherPourcentage(lignePourcentages, col, derniere) ==
    IF col > derniere THEN NUL
    ELSE IF \E m \in MotsPourcentage :
                includes(trim(toLowerCase(OuVide(Elt(lignePourcentages, col)))), m)
         THEN col
         ELSE chercherPourcentage(lignePourcentages, col + 1, derniere)

\* A competency of the flat-file service is {nom, colonne}; colDebut and
\* colFin record the span finaliserCompetence was called with.
Competence(nom, colDebut, colFin, colonne) ==
    [nom |-> nom, colDebut |-> colDebut, colFin |-> colFin, colonne |-> colonne]

\* A faulty finaliserCompetence, which examines one column less after
\* "satisfaisant".
finaliserCompetenceCourte(competences, nomCompetence, colDebut, colFin, ligneGroupes, lignePourcentages) ==
    LET colonneSatisfaisantGroupe ==
            chercherSatisfaisant(ligneGroupes, colDebut, colFin)
        colonnePourcentage ==
            chercherPourcentage(lignePourcentages, colonneSatisfaisantGroupe,
                Min(colonneSatisfaisantGroupe + ColonnesApresSatisfaisant - 1, colFin))
    IN  IF colonneSatisfaisantGroupe = NUL
        THEN competences
        ELSE IF colonnePourcentage # NUL
             THEN Append(competences,
                      Competence(nomCompetence, colDebut, colFin, colonnePourcentage))
             ELSE Append(competences,
                      Competence(nomCompetence, colDebut, colFin,
                                 colonneSatisfaisantGroupe + 1))

finaliserCompetence(competences, nomCompetence, colDebut, colFin, ligneGroupes, lignePourcentages) ==
    LET colonneSatisfaisantGroupe ==
            chercherSatisfaisant(ligneGroupes, colDebut, colFin)
        colonnePourcentage ==
            chercherPourcentage(lignePourcentages, colonneSatisfaisantGroupe,
                Min(colonneSatisfaisantGroupe + ColonnesApresSatisfaisant, colFin))
    IN  IF colonneSatisfaisantGroupe = NUL
        THEN competences
        ELSE IF colonnePourcentage # NUL
             THEN Append(competences,
                      Competence(nomCompetence, colDebut, colFin, colonnePourcentage))
             ELSE Append(competences,
                      Competence(nomCompetence, colDebut, colFin,
                                 colonneSatisfaisantGroupe + 1))

\* the forEach of extraireCompetences from the cell index on; etat holds the
\* three locals: competences, competenceEnCours (Nul when none), colonneDebutCompetence
RECURSIVE parcourirLigne3(_, _, _, _, _)
parcourirLigne3(ligne3, index, etat, ligneGroupes, lignePourcentages) ==
    IF index >= Len(ligne3) THEN etat
    ELSE LET texte == trim(OuVide(Elt(ligne3, index)))
             suivant ==
                IF Len(texte) > 0 /\ estCompetence(texte)
                THEN [competences |->
                         IF etat.competenceEnCours # Nul
                         THEN finaliserCompetence(etat.competences,
                                  etat.competenceEnCours,
                                  etat.colonneDebutCompetence, index - 1,
                                  ligneGroupes, lignePourcentages)
                         ELSE etat.competences,
                      competenceEnCours |-> texte,
                      colonneDebutCompetence |-> index]
                ELSE etat
         IN  parcourirLigne3(ligne3, index + 1, suivant, ligneGroupes,
                             lignePourcentages)

\* A faulty extraireCompetences, which does not close the span left open at
\* the end of the title row.
extraireCompetencesSansDerniere(ligne3, ligneGroupes, lignePourcentages) ==
    parcourirLigne3(ligne3, 0,
        [competences |-> <<>>, competenceEnCours |-> Nul,
         colonneDebutCompetence |-> NUL],
        ligneGroupes, lignePourcentages).competences

extraireCompetences(ligne3, ligneGroupes, lignePourcentages) ==
    LET fin == parcourirLigne3(ligne3, 0,
                   [competences |-> <<>>, competenceEnCours |-> Nul,
                    colonneDebutCompetence |-> NUL],
                   ligneGroupes, lignePourcentages)
    IN  IF fin.competenceEnCours # Nul
        THEN finaliserCompetence(fin.competences, fin.competenceEnCours,
                 fin.colonneDebutCompetence, Len(ligne3) - 1,
                 ligneGroupes, lignePourcentages)
        ELSE fin.competences

(***************************************************************************)
(* OraceCSVService: data rows                                              *)
(***************************************************************************)

\* the competences.forEach of extraireEcoles / extraireResultats: the results
\* map of one row, competencies taken in order (a later one overwrites)
RECURSIVE resultatsLigne(_, _, _, _, _)
resultatsLigne(ligne, competences, niveau, matiere, resultats) ==
    IF competences = <<>> THEN resultats
    ELSE LET comp == Head(competences)
             pctSatisfaisant == parsePourcentage(Elt(ligne, comp.colonne))
             cle == cleCompetence(niveau, matiere, comp.nom)
         IN  resultatsLigne(ligne, Tail(competences), niveau, matiere,
                 IF pctSatisfaisant # NUL
                 THEN ObjectAssign(resultats, (cle :> pctSatisfaisant))
                 ELSE resultats)

ligneIgnoree(uai) ==
    \/ uai = <<>>
    \/ includes(toLowerCase(uai), <<"t", "o", "t", "a", "l">>)
    \/ includes(toLowerCase(uai), <<"c", "i", "r", "c", "o", "n", "s", "c", "r", "i", "p", "t", "i", "o", "n">>)

Ecole(uai, nom, resultats) == [uai |-> uai, nom |-> nom, resultats |-> resultats]

\* A faulty extraireEcoles, which drops a row as soon as one cell is
\* unparsable.
RECURSIVE extraireEcolesToutOuRien(_, _, _, _)
extraireEcolesToutOuRien(lignesEcoles, competences, niveau, matiere) ==
    IF lignesEcoles = <<>> THEN <<>>
    ELSE LET ligne == Head(lignesEcoles)
             uai == trim(OuVide(Elt(ligne, 0)))
             nom == trim(OuVide(Elt(ligne, 1)))
             resultats == resultatsLigne(ligne, competences, niveau, matiere,
                                         ObjetVide)
             reste == extraireEcolesToutOuRien(Tail(lignesEcoles), competences,
                                               niveau, matiere)
             complet == \A i \in 1..Len(competences) :
                            parsePourcentage(Elt(ligne, competences[i].colonne)) # NUL
         IN  IF ligneIgnoree(uai) \/ ~complet THEN reste
             ELSE <<Ecole(uai, nom, resultats)>> \o reste

RECURSIVE extraireEcoles(_, _, _, _)
extraireEcoles(lignesEcoles, competences, niveau, matiere) ==
    IF lignesEcoles = <<>> THEN <<>>
    ELSE LET ligne == Head(lignesEcoles)
             uai == trim(OuVide(Elt(ligne, 0)))
             nom == trim(OuVide(Elt(ligne, 1)))
             resultats == resultatsLigne(ligne, competences, niveau, matiere,
                                         ObjetVide)
             reste == extraireEcoles(Tail(lignesEcoles), competences,
                                     niveau, matiere)
         IN  IF ligneIgnoree(uai) THEN reste
             ELSE IF DOMAIN resultats # {}
                  THEN <<Ecole(uai, nom, resultats)>> \o reste
                  ELSE reste

(***************************************************************************)
(* OraceCSVService.chargerFichierCSV                                       *)
(***************************************************************************)

\* The outcome of one unit: the list returned (ecoles) and, as a trace of
\* the console narration, the return statement taken (issue), the
\* competencies identified, the first data row and the rows handed to the
\* row mapper.
Issue(issue, competences, premiereLigne, lignesEcoles, listeEcoles) ==
    [issue |-> issue, competences |-> competences,
     premiereLigne |-> premiereLigne, lignesEcoles |-> lignesEcoles,
     ecoles |-> listeEcoles]

Rejet(issue) == Issue(issue, <<>>, NUL, <<>>, <<>>)

\* A faulty chargerFichierCSV, which goes on with the documented rows 7 and
\* 8 when the anchors are not found.
chargerFichierCSVSansRejet(fichier, niveau, matiere) ==
    IF fichier.etat = "absent" THEN Rejet("absent")
    ELSE IF fichier.etat = "illisible" THEN Rejet("erreur")
    ELSE LET lignes == fichier.lignes
             trouvee == trouverLigneGroupes(lignes)
             ligneGroupes == IF trouvee = NUL THEN 6 ELSE trouvee
             pourcentages == trouverLignePourcentages(lignes, ligneGroupes)
             lignePourcentages ==
                 IF trouvee = NUL \/ pourcentages = NUL THEN 7 ELSE pourcentages
             competences ==
                 extraireCompetences(Elt(lignes, 2), Elt(lignes, ligneGroupes),
                                     Elt(lignes, lignePourcentages))
             premiereLigneEcole == trouverPremiereEcole(lignes, lignePourcentages)
             lignesEcoles == Slice(lignes, premiereLigneEcole)
         IN  IF ~validerIdentification(Elt(lignes, 0), niveau, matiere)
             THEN Rejet("identification")
             ELSE Issue(IF trouvee = NUL THEN "groupes"
                        ELSE IF pourcentages = NUL THEN "pourcentages"
                        ELSE IF competences = <<>> THEN "competences"
                        ELSE "ok",
                        competences, premiereLigneEcole, lignesEcoles,
                        extraireEcoles(lignesEcoles, competences, niveau, matiere))

\* fichier.etat: "absent" (existsSync is false), "illisible" (readFileSync
\* or parse throws, which the catch turns into []), "ok" (parse yields
\* fichier.lignes).
chargerFichierCSV(fichier, niveau, matiere) ==
    IF fichier.etat = "absent" THEN Rejet("absent")
    ELSE IF fichier.etat = "illisible" THEN Rejet("erreur")
    ELSE LET lignes == fichier.lignes
             ligneGroupes == trouverLigneGroupes(lignes)
             lignePourcentages == trouverLignePourcentages(lignes, ligneGroupes)
             competences ==
                 extraireCompetences(Elt(lignes, 2), Elt(lignes, ligneGroupes),
                                     Elt(lignes, lignePourcentages))
             premiereLigneEcole == trouverPremiereEcole(lignes, lignePourcentages)
             lignesEcoles == Slice(lignes, premiereLigneEcole)
         IN  IF ~validerIdentification(Elt(lignes, 0), niveau, matiere)
             THEN Rejet("identification")
             ELSE IF ligneGroupes = NUL THEN Rejet("groupes")
             ELSE IF lignePourcentages = NUL THEN Rejet("pourcentages")
             ELSE IF competences = <<>> THEN Rejet("competences")
             ELSE Issue("ok", competences, premiereLigneEcole, lignesEcoles,
                        extraireEcoles(lignesEcoles, competences, niveau, matiere))

(***************************************************************************)
(* The registry: the Map of loadEcoles, as the sequence of its values in   *)
(* insertion order                                                         *)
(***************************************************************************)

\* ecolesMap.has(uai)
MapHas(map, uai) == \E i \in 1..Len(map) : map[i].uai = uai

\* position of the entry of uai
MapIndex(map, uai) == CHOOSE i \in 1..Len(map) : map[i].uai = uai

\* ecolesMap.set(uai, valeur) for a key not yet in the map
MapSet(map, valeur) == Append(map, valeur)

\* A faulty body of resultatsFichier.forEach, which replaces the results of
\* the record instead of merging into them.
fusionnerEcoleEcrase(map, ecole) ==
    LET cree == IF MapHas(map, ecole.uai) THEN map
                ELSE MapSet(map, Ecole(ecole.uai, ecole.nom, ObjetVide))
        i == MapIndex(cree, ecole.uai)
    IN  [cree EXCEPT ![i].resultats = ecole.resultats]

\* A faulty body of resultatsFichier.forEach, which starts a fresh Map for
\* each partial record.
fusionnerEcoleRemplace(map, ecole) ==
    <<Ecole(ecole.uai, ecole.nom, ecole.resultats)>>

\* A faulty body of resultatsFichier.forEach, which leaves a school already
\* in the Map as it is.
fusionnerEcolePremierGagne(map, ecole) ==
    IF MapHas(map, ecole.uai) THEN map
    ELSE MapSet(map, Ecole(ecole.uai, ecole.nom, ecole.resultats))

\* A faulty body of resultatsFichier.forEach, which gives the record the
\* name of the partial record merged last.
fusionnerEcoleRenomme(map, ecole) ==
    LET cree == IF MapHas(map, ecole.uai) THEN map
                ELSE MapSet(map, Ecole(ecole.uai, ecole.nom, ObjetVide))
        i == MapIndex(cree, ecole.uai)
    IN  [cree EXCEPT ![i].resultats = ObjectAssign(@, ecole.resultats),
                     ![i].nom = ecole.nom]

\* the body of resultatsFichier.forEach in OraceCSVService.loadEcoles
fusionnerEcole(map, ecole) ==
    LET cree == IF MapHas(map, ecole.uai) THEN map
                ELSE MapSet(map, Ecole(ecole.uai, ecole.nom, ObjetVide))
        i == MapIndex(cree, ecole.uai)
    IN  [cree EXCEPT ![i].resultats = ObjectAssign(@, ecole.resultats)]

\* resultatsFichier.forEach(...)
RECURSIVE fusionner(_, _)
fusionner(map, resultatsFichier) ==
    IF resultatsFichier = <<>> THEN map
    ELSE fusionner(fusionnerEcole(map, Head(resultatsFichier)),
                   Tail(resultatsFichier))


(***************************************************************************)
(* OraceCSVService: getEcoles, getCompetencesParNiveauMatiere              *)
(***************************************************************************)

\* parts[n] of comp.split("_"), for n = 0 and n = 1
partie0(comp) ==
    IF indexOf(comp, <<"_">>) < 0 THEN comp ELSE SubSeq(comp, 1, indexOf(comp, <<"_">>))

partie1(comp) ==
    IF indexOf(comp, <<"_">>) < 0 THEN <<"u", "n", "d", "e", "f", "i", "n", "e", "d">>
    ELSE partie0(SubSeq(comp, indexOf(comp, <<"_">>) + 2, Len(comp)))

\* `${niveau}_${matiere}` of a key
cleGroupe(comp) == partie0(comp) \o <<"_">> \o partie1(comp)

\* A faulty body of the inner forEach, which pushes the key to an array
\* instead of adding it to a Set.
ajouterCompetenceListe(competences, comp) ==
    LET key == cleGroupe(comp)
        liste == IF key \in DOMAIN competences THEN competences[key] ELSE ObjetVide
        nombre == IF comp \in DOMAIN liste THEN liste[comp] + 1 ELSE 1
    IN  [k \in (DOMAIN competences) \cup {key} |->
            IF k = key
            THEN [c \in (DOMAIN liste) \cup {comp} |->
                     IF c = comp THEN nombre ELSE liste[c]]
            ELSE competences[k]]

\* the body of the inner forEach: competences[key].add(comp), the Set being
\* created at the first key of its group.  A group maps each of its keys to
\* the number of times the final array lists it.
ajouterCompetence(competences, comp) ==
    LET key == cleGroupe(comp)
        ensemble == IF key \in DOMAIN competences THEN competences[key] ELSE ObjetVide
    IN  [k \in (DOMAIN competences) \cup {key} |->
            IF k = key
            THEN (IF comp \in DOMAIN ensemble THEN ensemble
                  ELSE [c \in (DOMAIN ensemble) \cup {comp} |->
                           IF c = comp THEN 1 ELSE ensemble[c]])
            ELSE competences[k]]

\* Object.keys(ecole.resultats).forEach(...) over the keys left
RECURSIVE grouperCles(_, _)
grouperCles(competences, restantes) ==
    IF restantes = {} THEN competences
    ELSE LET comp == CHOOSE c \in restantes : TRUE
         IN  grouperCles(ajouterCompetence(competences, comp), restantes \ {comp})

\* this.ecoles.forEach(...)
RECURSIVE grouperEcoles(_, _)
grouperEcoles(competences, liste) ==
    IF liste = <<>> THEN competences
    ELSE grouperEcoles(grouperCles(competences, DOMAIN Head(liste).resultats),
                       Tail(liste))

getCompetencesParNiveauMatiere(liste) == grouperEcoles(ObjetVide, liste)

\* getEcoles()
getEcoles(liste) == liste
(***************************************************************************)
(* OraceService: the workbook reader                                       *)
(*                                                                         *)
(* A sheet is [nom, etat, lignes, fusions]: lignes[r][c] is the text of    *)
(* the cell at row r, column c (the empty string where the sheet has no    *)
(* cell), fusions is sheet["!merges"], a sequence of [s |-> [r, c],        *)
(* e |-> [r, c]].  etat is "erreur" for a sheet whose reading raises (a    *)
(* sheet without "!ref" makes decode_range throw), "ok" otherwise.         *)
(***************************************************************************)

\* cell && cell.v ? cell.v.toString().trim() : ""
texteCellule(feuille, r, c) ==
    IF r >= 0 /\ r < Len(feuille.lignes)
    THEN trim(OuVide(Elt(feuille.lignes[r + 1], c)))
    ELSE <<>>

\* range.e.c: index of the last column of the sheet
derniereColonne(feuille) ==
    LET largeurs == {Len(feuille.lignes[r]) : r \in 1..Len(feuille.lignes)}
    IN  IF largeurs = {} THEN 0
        ELSE (CHOOSE n \in largeurs : \A m \in largeurs : m <= n) - 1

NiveauxConnus == <<<<"C", "P">>, <<"C", "E", "1">>, <<"C", "E", "2">>, <<"C", "M", "1">>, <<"C", "M", "2">>>>

\* sheetName.match(/^(CP|CE1|CE2|CM1|CM2)/i): the first alternative that
\* is a prefix of the name, case ignored
extraireNiveau(sheetName) ==
    LET prefixes == {i \in 1..Len(NiveauxConnus) :
                        toUpperCase(substring(sheetName, Len(NiveauxConnus[i])))
                            = NiveauxConnus[i]}
    IN  IF prefixes # {}
        THEN NiveauxConnus[CHOOSE i \in prefixes : \A j \in prefixes : i <= j]
        ELSE toUpperCase(substring(sheetName, 3))

extraireMatiere(sheetName) ==
    IF includes(toUpperCase(sheetName), <<"F", "R">>) THEN <<"f", "r", "a", "n", "c", "a", "i", "s">>
    ELSE IF includes(toUpperCase(sheetName), <<"M", "A">>) THEN <<"m", "a", "t", "h", "s">>
    ELSE <<"i", "n", "c", "o", "n", "n", "u">>

\* row of the competency titles, and rows scanned for the group labels
LigneTitres == 2
LigneLabelsDebut == 3
LigneLabelsFin == 5
\* row of the group labels read by the classic method
LigneGroupesClassique == 5
\* sheet_to_json(sheet, {range: 10, ...}): first data row
PremiereLigneDonnees == 10
\* offset the classic method uses when no group label is found
OffsetParDefaut == 5

\* ÉTAPE 1: the horizontal merges anchored on the title row, sorted by
\* start column (Array.prototype.sort is stable)
RECURSIVE insererFusion(_, _)
insererFusion(triees, f) ==
    IF triees = <<>> THEN <<f>>
    ELSE IF Head(triees).s.c <= f.s.c
         THEN <<Head(triees)>> \o insererFusion(Tail(triees), f)
         ELSE <<f>> \o triees

RECURSIVE trierFusions(_)
trierFusions(fusions) ==
    IF fusions = <<>> THEN <<>>
    ELSE insererFusion(trierFusions(SubSeq(fusions, 1, Len(fusions) - 1)),
                       fusions[Len(fusions)])

fusionsLigne3(feuille) ==
    trierFusions(SelectSeq(feuille.fusions,
        LAMBDA m : m.s.r = LigneTitres /\ m.s.c # m.e.c))

\* the fusionsLigne3.forEach: the merges whose anchor cell is a competency
RECURSIVE competencesFusions(_, _)
competencesFusions(feuille, fusions) ==
    IF fusions = <<>> THEN <<>>
    ELSE LET fusion == Head(fusions)
             texte == texteCellule(feuille, LigneTitres, fusion.s.c)
             reste == competencesFusions(feuille, Tail(fusions))
         IN  IF estCompetence(texte)
             THEN <<[nom |-> texte, colDebut |-> fusion.s.c, colFin |-> fusion.e.c,
                     largeur |-> fusion.e.c - fusion.s.c + 1]>> \o reste
             ELSE reste

estSatisfaisant(valeur) ==
    \/ includes(valeur, <<"s", "a", "t", "i", "s", "f", "a", "i", "s", "a", "n", "t">>)
    \/ includes(valeur, <<"s", "a", "t", "i", "s", "f">>)
    \/ includes(valeur, <<"s", "a", "t", "i", "s">>)

\* ÉTAPE 3, the inner loop over the rows 4 to 6 of one column: the offset
\* found at this column, NUL if none
RECURSIVE offsetColonne(_, _, _, _)
offsetColonne(feuille, comp, col, row) ==
    IF row > LigneLabelsFin THEN NUL
    ELSE LET valeur == trim(toLowerCase(texteCellule(feuille, row, col)))
         IN  IF valeur # <<>> /\ Len(valeur) > 2 /\ estSatisfaisant(valeur)
                /\ includes(valeur, <<"n", "o", "m", "b", "r", "e">>)
             THEN col + 1 - comp.colDebut
             ELSE IF valeur # <<>> /\ Len(valeur) > 2 /\ estSatisfaisant(valeur)
                     /\ (includes(valeur, <<"%">>) \/ includes(valeur, <<"s", "u", "r", " ", "l", "e", " ", "n", "o", "m", "b", "r", "e">>))
             THEN col - comp.colDebut
             ELSE offsetColonne(feuille, comp, col, row + 1)

\* ÉTAPE 3, the outer loop over the columns of the merge
RECURSIVE offsetCompetence(_, _, _)
offsetCompetence(feuille, comp, col) ==
    IF col > comp.colFin THEN NUL
    ELSE LET trouve == offsetColonne(feuille, comp, col, LigneLabelsDebut)
         IN  IF trouve # NUL THEN trouve
             ELSE offsetCompetence(feuille, comp, col + 1)

\* ÉTAPE 3 and the final map: {nom, colonneDebut} of the source, colonne
\* being its colonneDebut (the column of the percentage)
RECURSIVE competencesAvecOffsets(_, _)
competencesAvecOffsets(feuille, competences) ==
    IF competences = <<>> THEN <<>>
    ELSE LET comp == Head(competences)
             trouve == offsetCompetence(feuille, comp, comp.colDebut)
             offsetPourcentageSatisfaisant ==
                 IF trouve = NUL THEN comp.largeur - 1 ELSE trouve
         IN  <<Competence(comp.nom, comp.colDebut, comp.colFin,
                          comp.colDebut + offsetPourcentageSatisfaisant)>>
             \o competencesAvecOffsets(feuille, Tail(competences))

\* ligne3 / ligne6 of the classic method
ligneClassique(feuille, r) ==
    [i \in 1..(derniereColonne(feuille) + 1) |-> texteCellule(feuille, r, i - 1)]

\* ligne3.findIndex(v => v.toLowerCase().includes("compétence"))
colonneCompetence(ligne3) ==
    LET cols == {c \in 0..(Len(ligne3) - 1) :
                    includes(toLowerCase(Elt(ligne3, c)), <<"c", "o", "m", "p", "é", "t", "e", "n", "c", "e">>)}
    IN  IF cols = {} THEN -1 ELSE CHOOSE c \in cols : \A d \in cols : c <= d

\* the titles found after the "Compétence" column: their columns, in order
colonnesTitresClassique(ligne3) ==
    LET depart == colonneCompetence(ligne3) + 1
    IN  SelectSeq([i \in 1..(Len(ligne3) - depart) |-> depart + i - 1],
            LAMBDA col : Elt(ligne3, col) # <<>>
                         /\ Len(Elt(ligne3, col)) >= LongueurMinTitre)

\* groupesSatisfaisants[0].colPourcentage, NUL when the list is empty
premierGroupeSatisfaisant(ligne6) ==
    LET cols == {c \in 0..(Len(ligne6) - 1) :
                    \/ includes(toLowerCase(Elt(ligne6, c)), <<"s", "a", "t", "i", "s", "f", "a", "i", "s", "a", "n", "t">>)
                    \/ includes(toLowerCase(Elt(ligne6, c)), <<"s", "a", "t", "i", "s", "f">>)}
        col == CHOOSE c \in cols : \A d \in cols : c <= d
        valeurGroupe == toLowerCase(Elt(ligne6, col))
    IN  IF cols = {} THEN NUL
        ELSE IF includes(valeurGroupe, <<"n", "o", "m", "b", "r", "e">>) \/ ~includes(valeurGroupe, <<"%">>)
             THEN col + 1
             ELSE col

\* analyserStructureClassique: the competencies only.  colFin is not in the
\* source: it is the column before the next title (the last column of the
\* sheet for the last title), the span the title anchors.
analyserStructureClassique(feuille) ==
    LET ligne3 == ligneClassique(feuille, LigneTitres)
        ligne6 == ligneClassique(feuille, LigneGroupesClassique)
        cols == colonnesTitresClassique(ligne3)
        groupe == premierGroupeSatisfaisant(ligne6)
        offsetPourcentageSatisfaisant ==
            IF groupe = NUL THEN OffsetParDefaut ELSE groupe - cols[1]
    IN  IF colonneCompetence(ligne3) = -1 \/ cols = <<>> THEN <<>>
        ELSE [i \in 1..Len(cols) |->
                 Competence(Elt(ligne3, cols[i]), cols[i],
                     IF i < Len(cols) THEN cols[i + 1] - 1 ELSE Len(ligne3) - 1,
                     cols[i] + offsetPourcentageSatisfaisant)]

\* analyserStructureAvecFusions: the competencies only
analyserStructureAvecFusions(feuille) ==
    IF feuille.fusions = <<>> THEN analyserStructureClassique(feuille)
    ELSE LET competences == competencesFusions(feuille, fusionsLigne3(feuille))
         IN  IF competences = <<>> THEN analyserStructureClassique(feuille)
             ELSE competencesAvecOffsets(feuille, competences)

extraireCompetencesLigne3(feuille) == analyserStructureAvecFusions(feuille)

\* sheet_to_json(sheet, {range: 10, header: 1, defval: null, raw: false}):
\* the rows from the eleventh on, null where the sheet has no cell
rangeData(feuille) ==
    LET donnees == Slice(feuille.lignes, PremiereLigneDonnees)
    IN  [r \in 1..Len(donnees) |->
            [c \in 1..Len(donnees[r]) |->
                IF donnees[r][c] = <<>> THEN Nul ELSE donnees[r][c]]]

extraireResultats(row, competences, niveau, matiere) ==
    resultatsLigne(row, competences, niveau, matiere, ObjetVide)

\* the rangeData.forEach of loadEcoles, up to the merge: for each row that is
\* not ignored, the identity read and the results extracted, in row order
RECURSIVE lignesTraitees(_, _, _, _)
lignesTraitees(rows, competences, niveau, matiere) ==
    IF rows = <<>> THEN <<>>
    ELSE LET row == Head(rows)
             uai == trim(OuVide(Elt(row, 0)))
             nom == trim(OuVide(Elt(row, 1)))
             reste == lignesTraitees(Tail(rows), competences, niveau, matiere)
         IN  IF ligneIgnoree(uai) THEN reste
             ELSE <<Ecole(uai, nom,
                          extraireResultats(row, competences, niveau, matiere))>>
                  \o reste

\* the body of feuillesResultats.forEach, up to the merge into ecolesMap
traiterFeuille(feuille) ==
    IF feuille.etat = "erreur" THEN Rejet("exception")
    ELSE LET niveau == extraireNiveau(feuille.nom)
             matiere == extraireMatiere(feuille.nom)
             competences == extraireCompetencesLigne3(feuille)
             rows == rangeData(feuille)
         IN  IF competences = <<>> THEN Rejet("competences")
             ELSE Issue("ok", competences, PremiereLigneDonnees, rows,
                        lignesTraitees(rows, competences, niveau, matiere))

(***************************************************************************)
(* The units of a run                                                      *)
(***************************************************************************)

\* configs of OraceCSVService.loadEcoles
configs ==
    << [niveau |-> <<"C", "P">>,  matiere |-> <<"f", "r", "a", "n", "c", "a", "i", "s">>, prefix |-> <<"c", "p", "f", "r">>],
       [niveau |-> <<"C", "P">>,  matiere |-> <<"m", "a", "t", "h", "s">>,    prefix |-> <<"c", "p", "m", "a">>],
       [niveau |-> <<"C", "E", "1">>, matiere |-> <<"f", "r", "a", "n", "c", "a", "i", "s">>, prefix |-> <<"c", "e", "1", "f", "r">>],
       [niveau |-> <<"C", "E", "1">>, matiere |-> <<"m", "a", "t", "h", "s">>,    prefix |-> <<"c", "e", "1", "m", "a">>],
       [niveau |-> <<"C", "E", "2">>, matiere |-> <<"f", "r", "a", "n", "c", "a", "i", "s">>, prefix |-> <<"c", "e", "2", "f", "r">>],
       [niveau |-> <<"C", "E", "2">>, matiere |-> <<"m", "a", "t", "h", "s">>,    prefix |-> <<"c", "e", "2", "m", "a">>],
       [niveau |-> <<"C", "M", "1">>, matiere |-> <<"f", "r", "a", "n", "c", "a", "i", "s">>, prefix |-> <<"c", "m", "1", "f", "r">>],
       [niveau |-> <<"C", "M", "1">>, matiere |-> <<"m", "a", "t", "h", "s">>,    prefix |-> <<"c", "m", "1", "m", "a">>],
       [niveau |-> <<"C", "M", "2">>, matiere |-> <<"f", "r", "a", "n", "c", "a", "i", "s">>, prefix |-> <<"c", "m", "2", "f", "r">>],
       [niveau |-> <<"C", "M", "2">>, matiere |-> <<"m", "a", "t", "h", "s">>,    prefix |-> <<"c", "m", "2", "m", "a">>] >>

\* Bound: the runs modelled process the first NbUnites configurations (flat
\* files) or result sheets (workbook).
NbUnites == 2

\* workbook.SheetNames: the help sheet, then one sheet per configuration
SheetNames ==
    <<<<"A", "i", "d", "e", " ", "à", " ", "l", "a", " ", "l", "e", "c", "t", "u", "r", "e">>>> \o [i \in 1..NbUnites |-> toUpperCase(configs[i].prefix)]

\* workbook.SheetNames.slice(1)
feuillesResultats == Slice(SheetNames, 1)

(***************************************************************************)
(* Input grids.  Columns 0 and 1 hold the identifier and the name; each    *)
(* competency takes two columns (number, percentage).                      *)
(***************************************************************************)

V == <<>>
LigneVide == <<V>>

Titre1 == <<"L", "e", "c", "t", "u", "r", "e", " ", "d", "e", " ", "m", "o", "t", "s", " ", "(", "1", "0", " ", "p", "o", "i", "n", "t", "s", ")">>
Titre2 == <<"C", "a", "l", "c", "u", "l", " ", "m", "e", "n", "t", "a", "l">>

TitresReguliers == <<V, V, Titre1, V, Titre2, V>>
TitresAucun == <<V, V, <<"C", "o", "m", "p", "é", "t", "e", "n", "c", "e", "s", " ", "é", "v", "a", "l", "u", "é", "e", "s">>, V, <<"S", "c", "o", "r", "e", "s">>, V>>
TitresClassiques == <<V, <<"C", "o", "m", "p", "é", "t", "e", "n", "c", "e">>, Titre1, V, Titre2, V>>

GroupesReguliers == <<V, V, <<"G", "r", "o", "u", "p", "e", " ", "s", "a", "t", "i", "s", "f", "a", "i", "s", "a", "n", "t">>, V, <<"G", "r", "o", "u", "p", "e", " ", "s", "a", "t", "i", "s", "f", "a", "i", "s", "a", "n", "t">>, V>>
GroupesEnFin == <<V, V, <<"G", "r", "o", "u", "p", "e", " ", "f", "r", "a", "g", "i", "l", "e">>, <<"G", "r", "o", "u", "p", "e", " ", "s", "a", "t", "i", "s", "f", "a", "i", "s", "a", "n", "t">>, <<"G", "r", "o", "u", "p", "e", " ", "f", "r", "a", "g", "i", "l", "e">>, <<"G", "r", "o", "u", "p", "e", " ", "s", "a", "t", "i", "s", "f", "a", "i", "s", "a", "n", "t">>>>

PctReguliers == <<V, V, <<"N", "o", "m", "b", "r", "e">>, <<"%">>, <<"N", "o", "m", "b", "r", "e">>, <<"%">>>>
PctEnTete == <<V, V, <<"%">>, V, <<"%">>, V>>

LabelsNombrePct == <<V, V, <<"N", "o", "m", "b", "r", "e", " ", "g", "r", "o", "u", "p", "e", " ", "s", "a", "t", "i", "s", "f", "a", "i", "s", "a", "n", "t">>, <<"%", " ", "g", "r", "o", "u", "p", "e", " ", "s", "a", "t", "i", "s", "f", "a", "i", "s", "a", "n", "t">>, <<"N", "o", "m", "b", "r", "e", " ", "g", "r", "o", "u", "p", "e", " ", "s", "a", "t", "i", "s", "f", "a", "i", "s", "a", "n", "t">>, <<"%", " ", "g", "r", "o", "u", "p", "e", " ", "s", "a", "t", "i", "s", "f", "a", "i", "s", "a", "n", "t">>>>
LabelsPct == <<V, V, <<"N", "o", "m", "b", "r", "e", " ", "g", "r", "o", "u", "p", "e", " ", "f", "r", "a", "g", "i", "l", "e">>, <<"%", " ", "g", "r", "o", "u", "p", "e", " ", "s", "a", "t", "i", "s", "f", "a", "i", "s", "a", "n", "t">>, <<"N", "o", "m", "b", "r", "e", " ", "g", "r", "o", "u", "p", "e", " ", "f", "r", "a", "g", "i", "l", "e">>, <<"%", " ", "g", "r", "o", "u", "p", "e", " ", "s", "a", "t", "i", "s", "f", "a", "i", "s", "a", "n", "t">>>>
LabelsNombreEnFin == <<V, V, <<"%", " ", "g", "r", "o", "u", "p", "e", " ", "f", "r", "a", "g", "i", "l", "e">>, <<"N", "o", "m", "b", "r", "e", " ", "g", "r", "o", "u", "p", "e", " ", "s", "a", "t", "i", "s", "f", "a", "i", "s", "a", "n", "t">>, <<"%", " ", "g", "r", "o", "u", "p", "e", " ", "f", "r", "a", "g", "i", "l", "e">>, <<"N", "o", "m", "b", "r", "e", " ", "g", "r", "o", "u", "p", "e", " ", "s", "a", "t", "i", "s", "f", "a", "i", "s", "a", "n", "t">>>>
LabelsAucun == <<V, V, <<"N", "o", "m", "b", "r", "e">>, <<"%">>, <<"N", "o", "m", "b", "r", "e">>, <<"%">>>>

\* rows 1 .. n of a grid (row 0 is put in front of them): the titles on row
\* 2, the group labels on row iG, the percentage labels on row iP
Entete(titres, iG, groupes, iP, pcts, n) ==
    [i \in 1..n |->
        IF i = 2 THEN titres
        ELSE IF i = iG THEN groupes
        ELSE IF i = iP THEN pcts
        ELSE LigneVide]

UAI1 == <<"0", "0", "7", "0", "1", "1", "6", "N">>
UAI2 == <<"0", "0", "7", "0", "2", "0", "0", "A">>

Ligne(uai, nom, pct1, pct2) == <<uai, nom, <<"1", "2">>, pct1, <<"8">>, pct2>>

LigneComplete == Ligne(UAI1, <<"E", "c", "o", "l", "e", " ", "T", "e", "s", "t">>, <<"6", "2", ",", "5">>, <<"4", "0", " ", "%">>)
LignePartielle == Ligne(UAI1, <<"E", "c", "o", "l", "e", " ", "T", "e", "s", "t">>, <<"a", "b", "s">>, <<"4", "0", " ", "%">>)
LigneSansValeur == <<UAI1, <<"E", "c", "o", "l", "e", " ", "T", "e", "s", "t">>, V, <<"a", "b", "s">>, V, V>>
LigneHorsBornes == Ligne(UAI2, <<"E", "c", "o", "l", "e", " ", "B">>, <<"1", "0", "5">>, <<"0", ".", "5">>)
LigneAutreNom == Ligne(UAI1, <<"E", "c", "o", "l", "e", " ", "r", "e", "n", "o", "m", "m", "é", "e">>, <<"7", "0">>, <<"a", "b", "s">>)
LigneTotal == <<<<"T", "o", "t", "a", "l", " ", "c", "i", "r", "c", "o", "n", "s", "c", "r", "i", "p", "t", "i", "o", "n">>, V, <<"2", "0">>, <<"5", "5">>, <<"1", "6">>, <<"5", "0">>>>

\* the data rows of a unit
BlocsDonnees ==
    { <<LigneAutreNom>>,
      <<LigneComplete, LigneHorsBornes>>,
      <<LigneSansValeur, LigneHorsBornes>>,
      <<LignePartielle, LigneTotal>> }

\* the header blocks of the flat files
EntetesCSV ==
    { Entete(TitresReguliers, 6, GroupesReguliers, 7, PctReguliers, 9),
      Entete(TitresAucun, 6, GroupesReguliers, 7, PctReguliers, 9),
      Entete(TitresReguliers, 6, GroupesEnFin, 7, PctEnTete, 9),
      Entete(TitresReguliers, 9, GroupesReguliers, 10, PctReguliers, 10),
      Entete(TitresReguliers, 10, GroupesReguliers, 11, PctReguliers, 11),
      Entete(TitresReguliers, 6, GroupesReguliers, 10, PctReguliers, 10) }

\* the first rows of the flat files: the token of one of the configurations
\* processed, or no token
Identifications ==
    { <<<<"E", "v", "a", "l", "u", "a", "t", "i", "o", "n", " ">> \o configs[i].prefix>> : i \in 1..NbUnites }
        \cup { <<<<"E", "x", "p", "o", "r", "t", " ", "O", "R", "A", "C", "E">>, V>> }

FichiersCSV ==
    { [etat |-> "absent", lignes |-> <<>>], [etat |-> "illisible", lignes |-> <<>>] }
        \cup { [etat |-> "ok", lignes |-> <<id>> \o e \o d] :
                 id \in Identifications, e \in EntetesCSV, d \in BlocsDonnees }

\* the header blocks of the sheets, with their merges
Fusion(r, c1, c2) == [s |-> [r |-> r, c |-> c1], e |-> [r |-> r, c |-> c2]]

FusionsRegulieres == <<Fusion(2, 4, 5), Fusion(2, 2, 3), Fusion(0, 0, 5)>>

EntetesODS ==
    { [lignes |-> Entete(TitresReguliers, 5, LabelsNombrePct, 0, LigneVide, 9),
       fusions |-> FusionsRegulieres],
      [lignes |-> Entete(TitresReguliers, 4, LabelsPct, 0, LigneVide, 9),
       fusions |-> FusionsRegulieres],
      [lignes |-> Entete(TitresReguliers, 5, LabelsNombreEnFin, 0, LigneVide, 9),
       fusions |-> FusionsRegulieres],
      [lignes |-> Entete(TitresReguliers, 5, LabelsAucun, 0, LigneVide, 9),
       fusions |-> FusionsRegulieres],
      [lignes |-> Entete(TitresAucun, 5, LabelsNombrePct, 0, LigneVide, 9),
       fusions |-> FusionsRegulieres],
      [lignes |-> Entete(TitresClassiques, 5, LabelsNombrePct, 0, LigneVide, 9),
       fusions |-> <<>>],
      [lignes |-> Entete(TitresClassiques, 5, LabelsAucun, 0, LigneVide, 9),
       fusions |-> <<Fusion(0, 0, 5)>>] }

Feuilles(sheetName) ==
    { [nom |-> sheetName, etat |-> "erreur", lignes |-> <<>>, fusions |-> <<>>] }
        \cup { [nom |-> sheetName, etat |-> "ok",
                lignes |-> <<LigneVide>> \o e.lignes \o d, fusions |-> e.fusions] :
                 e \in EntetesODS, d \in BlocsDonnees }

\* What the processing of one unit leaves: the outcome r of its processing,
\* with what the unit was (etat, and its first row for a flat file).
Unite(etat, ligne1, r) == [etat |-> etat, ligne1 |-> ligne1] @@ r

\* what the turn of configs.forEach for configuration i can yield, one
\* outcome per file the configuration may name
IssuesCSV ==
    [i \in 1..NbUnites |->
        { Unite(f.etat, IF f.lignes = <<>> THEN <<>> ELSE f.lignes[1],
                chargerFichierCSV(f, configs[i].niveau, configs[i].matiere)) :
            f \in FichiersCSV }]

\* what the turn of feuillesResultats.forEach for sheet i can yield
IssuesODS ==
    [i \in 1..NbUnites |->
        { Unite(f.etat, <<>>, traiterFeuille(f)) :
            f \in Feuilles(feuillesResultats[i]) }]


(***************************************************************************)
(* IPSService: the in-memory cache, the cache file, the download           *)
(***************************************************************************)

\* NaN held by a numeric field
NaN == NUL - 1

\* this.ipsCache: null, or the list a load assigned
CacheNul == [charge |-> FALSE]

CacheCharge(liste) == [charge |-> TRUE, liste |-> liste]

\* The cache file of the department: absent, or a file with its age (recent:
\* less than 30 days) and its content (lisible: readFileSync and JSON.parse
\* succeed and yield donnees).
SansFichier == [existe |-> FALSE]

Fichier(recent, lisible, donnees) ==
    [existe |-> TRUE, recent |-> recent, lisible |-> lisible, donnees |-> donnees]

isCacheValid(fichier) == fichier.existe /\ fichier.recent

\* loadCache: the data of the file, null when reading or parsing throws
loadCache(fichier) ==
    IF fichier.existe /\ fichier.lisible
    THEN [nul |-> FALSE, data |-> fichier.donnees]
    ELSE [nul |-> TRUE]

\* JSON.parse(JSON.stringify(data)): a NaN is written as null
json(data) ==
    [i \in 1..Len(data) |->
        [data[i] EXCEPT !.ips_academique_public = IF @ = NaN THEN NUL ELSE @]]

\* saveCache: the file written, left as it was when writeFileSync throws
saveCache(fichier, data, ecrit) ==
    IF ecrit THEN Fichier(TRUE, TRUE, json(data)) ELSE fichier

\* results.map(record => ...): parseFloat(record.ips) || null, and
\* parseFloat(record.ips_academique_public)
formater(record) ==
    LET ips == parseFloat(record.ips)
        ips_academique_public == parseFloat(record.ips_academique_public)
    IN  [uai |-> record.uai,
         ips |-> IF ips.nan \/ ips.val = 0 THEN NUL ELSE ips.val,
         secteur |-> record.secteur,
         ips_academique_public |->
             IF ips_academique_public.nan THEN NaN ELSE ips_academique_public.val]

\* downloadDepartementIPS: reponse.erreur when axios.get throws
downloadDepartementIPS(reponse) ==
    IF reponse.erreur \/ Len(reponse.data) = 0 THEN <<>>
    ELSE [i \in 1..Len(reponse.data) |-> formater(reponse.data[i])]

\* A faulty loadDepartementIPS, which assigns this.ipsCache whatever the
\* download yields.
loadDepartementIPSSansTest(cache, disque, forceRefresh, reponse, ecrit) ==
    LET cached == loadCache(disque)
        downloaded == downloadDepartementIPS(reponse)
    IN  IF ~forceRefresh /\ isCacheValid(disque) /\ ~cached.nul
           /\ Len(cached.data) > 0
        THEN [retour |-> cached.data, ipsCache |-> CacheCharge(cached.data),
              cacheDisque |-> disque, api |-> FALSE]
        ELSE [retour |-> downloaded, ipsCache |-> CacheCharge(downloaded),
              cacheDisque |-> IF Len(downloaded) > 0
                              THEN saveCache(disque, downloaded, ecrit)
                              ELSE disque,
              api |-> TRUE]

\* loadDepartementIPS(codeDepartement, forceRefresh): what it returns, what
\* it leaves of this.ipsCache (cache) and of the cache file (disque), and
\* whether the API was contacted
loadDepartementIPS(cache, disque, forceRefresh, reponse, ecrit) ==
    LET cached == loadCache(disque)
        downloaded == downloadDepartementIPS(reponse)
    IN  IF ~forceRefresh /\ isCacheValid(disque) /\ ~cached.nul
           /\ Len(cached.data) > 0
        THEN [retour |-> cached.data, ipsCache |-> CacheCharge(cached.data),
              cacheDisque |-> disque, api |-> FALSE]
        ELSE IF Len(downloaded) > 0
             THEN [retour |-> downloaded, ipsCache |-> CacheCharge(downloaded),
                   cacheDisque |-> saveCache(disque, downloaded, ecrit),
                   api |-> TRUE]
             ELSE [retour |-> downloaded, ipsCache |-> cache,
                   cacheDisque |-> disque, api |-> TRUE]

\* getIPSBatch(uais): [] when no cache is loaded, else the records found
getIPSBatch(cache, uais) ==
    IF ~cache.charge THEN <<>>
    ELSE SelectSeq(cache.liste, LAMBDA e : \E i \in 1..Len(uais) : e.uai = trim(uais[i]))

\* what the API may answer: an error, no record, one or two records
Enregistrement(uai, ips, secteur, ips_academique_public) ==
    [uai |-> uai, ips |-> ips, secteur |-> secteur,
     ips_academique_public |-> ips_academique_public]

ReponsesAPI ==
    { [erreur |-> TRUE, data |-> <<>>],
      [erreur |-> FALSE, data |-> <<>>],
      [erreur |-> FALSE, data |-> <<Enregistrement(UAI1, <<"9", "8", ".", "5">>, <<"p", "u", "b", "l", "i", "c">>, V)>>],
      [erreur |-> FALSE,
       data |-> <<Enregistrement(UAI1, <<"9", "8", ".", "5">>, <<"p", "u", "b", "l", "i", "c">>, <<"1", "0", "1", ".", "2">>),
                  Enregistrement(UAI2, <<"0">>, <<"p", "r", "i", "v", "é">>, <<"1", "0", "1", ".", "2">>)>>] }

\* the cache files a run may find
FichiersCache ==
    { SansFichier }
        \cup { Fichier(recent, FALSE, <<>>) : recent \in BOOLEAN }
        \cup { Fichier(recent, TRUE, json(downloadDepartementIPS(reponse))) :
                 recent \in BOOLEAN, reponse \in ReponsesAPI }
(***************************************************************************)
(* The state machine: main and the loadEcoles it calls                     *)
(***************************************************************************)

Clients == {"index_csv", "index_pdf", "index_ods"}

\* the orchestrations that build an OraceCSVService
ClientsCSV == {"index_csv", "index_pdf"}

\* no function of the services is called on its own
SansAppel == [fn |-> "aucune"]

\* the call has not returned yet
EnAttente == [fait |-> FALSE]

\* loadEcoles has not been called before on this service
SansPremiere == [faite |-> FALSE]

\* The inputs of a second call of loadEcoles are those of the first one:
\* unit i is the unit that yielded r the first time.
memeUnite(i, r) ==
    premiere.faite => (i <= Len(premiere.partiels) /\ r = premiere.partiels[i])

\* Between a call of loadEcoles and the call after it, a file is left as it
\* was, is removed, or is created where there was none: unit i yields what
\* it yielded before, or is absent, or was absent.
fichierReste(i, r) ==
    ("partiels" \in DOMAIN premiere /\ ~premiere.faite) =>
        \/ r = premiere.partiels[i]
        \/ r.etat = "absent"
        \/ premiere.partiels[i].etat = "absent"

\* no unit processed yet
Aucun == Unite("aucun", <<>>, Rejet("aucun"))

Init ==
    /\ client \in Clients
    /\ pc = "debut"
    /\ lpc = "repos"
    /\ iConfig = 0
    /\ ecolesMap = <<>>
    /\ ecoles = <<>>
    /\ retour = <<>>
    /\ partiels = <<>>
    /\ dernier = Aucun
    /\ etapes = {}
    /\ ipsCache = CacheNul
    /\ cacheDisque = SansFichier
    /\ exitCode = NUL
    /\ entree = SansAppel
    /\ sortie = EnAttente
    /\ premiere = SansPremiere

\* main, ÉTAPE 1: the ORACE service is built and loadEcoles is entered
\* (const ecolesMap = new Map())
MainEtape1 ==
    /\ pc = "debut"
    /\ pc' = "etape1"
    /\ etapes' = etapes \cup {"orace"}
    /\ lpc' = "boucle"
    /\ iConfig' = 0
    /\ ecolesMap' = <<>>
    /\ partiels' = <<>>
    /\ UNCHANGED <<client, ecoles, retour, dernier, ipsCache, exitCode,
                   entree, sortie, premiere, cacheDisque>>

\* OraceCSVService.loadEcoles: one turn of configs.forEach
ChargerConfig ==
    /\ client \in ClientsCSV
    /\ lpc = "boucle"
    /\ iConfig < NbUnites
    /\ \E r \in IssuesCSV[iConfig + 1] :
          /\ memeUnite(iConfig + 1, r)
          /\ fichierReste(iConfig + 1, r)
          /\ ecolesMap' = fusionner(ecolesMap, r.ecoles)
          /\ dernier' = r
          /\ partiels' = Append(partiels, r)
    /\ iConfig' = iConfig + 1
    /\ UNCHANGED <<client, pc, lpc, ecoles, retour, etapes, ipsCache, exitCode,
                   entree, sortie, premiere, cacheDisque>>

\* A faulty end of loadEcoles, which adds the schools of the Map to
\* this.ecoles instead of assigning them.
FinChargementCSVCumule ==
    /\ client \in ClientsCSV
    /\ lpc = "boucle"
    /\ iConfig = NbUnites
    /\ ecoles' = ecoles \o ecolesMap
    /\ retour' = ecoles \o ecolesMap
    /\ lpc' = "retour"
    /\ UNCHANGED <<client, pc, iConfig, ecolesMap, partiels, dernier, etapes,
                   ipsCache, exitCode, entree, sortie, premiere, cacheDisque>>

\* OraceCSVService.loadEcoles: this.ecoles = Array.from(ecolesMap.values());
\* return this.ecoles
FinChargementCSV ==
    /\ client \in ClientsCSV
    /\ lpc = "boucle"
    /\ iConfig = NbUnites
    /\ ecoles' = ecolesMap
    /\ retour' = ecolesMap
    /\ lpc' = "retour"
    /\ UNCHANGED <<client, pc, iConfig, ecolesMap, partiels, dernier, etapes,
                   ipsCache, exitCode,
                   entree, sortie, premiere, cacheDisque>>

\* OraceService.loadEcoles: XLSX.readFile throws (the workbook is missing or
\* unreadable); the catch returns []
ClasseurIllisible ==
    /\ client = "index_ods"
    /\ lpc = "boucle"
    /\ iConfig = 0
    /\ premiere.faite => premiere.dernier.issue = "classeur"
    /\ retour' = <<>>
    /\ lpc' = "retour"
    /\ dernier' = Unite("illisible", <<>>, Rejet("classeur"))
    /\ UNCHANGED <<client, pc, iConfig, ecolesMap, ecoles, partiels, etapes,
                   ipsCache, exitCode,
                   entree, sortie, premiere, cacheDisque>>

\* OraceService.loadEcoles: one turn of feuillesResultats.forEach.  A sheet
\* whose processing raises leaves the forEach for the catch of loadEcoles,
\* which returns [] without assigning this.ecoles.
TraiterFeuille ==
    /\ client = "index_ods"
    /\ lpc = "boucle"
    /\ iConfig < Len(feuillesResultats)
    /\ \E r \in IssuesODS[iConfig + 1] :
          /\ memeUnite(iConfig + 1, r)
          /\ dernier' = r
          /\ partiels' = Append(partiels, r)
          /\ IF r.issue = "exception"
             THEN /\ retour' = <<>>
                  /\ lpc' = "retour"
                  /\ UNCHANGED ecolesMap
             ELSE /\ ecolesMap' = fusionner(ecolesMap, r.ecoles)
                  /\ UNCHANGED <<retour, lpc>>
    /\ iConfig' = iConfig + 1
    /\ UNCHANGED <<client, pc, ecoles, etapes, ipsCache, exitCode,
                   entree, sortie, premiere, cacheDisque>>

\* OraceService.loadEcoles: this.ecoles = Array.from(ecolesMap.values());
\* return this.ecoles
FinChargementODS ==
    /\ client = "index_ods"
    /\ lpc = "boucle"
    /\ iConfig = Len(feuillesResultats)
    /\ ecoles' = ecolesMap
    /\ retour' = ecolesMap
    /\ lpc' = "retour"
    /\ UNCHANGED <<client, pc, iConfig, ecolesMap, partiels, dernier, etapes,
                   ipsCache, exitCode,
                   entree, sortie, premiere, cacheDisque>>

\* A faulty main, which goes on whatever loadEcoles returned.
MainVerifierSansControle ==
    /\ pc = "etape1"
    /\ lpc = "retour"
    /\ pc' = "verifie"
    /\ lpc' = "repos"
    /\ iConfig' = 0
    /\ ecolesMap' = <<>>
    /\ partiels' = <<>>
    /\ dernier' = Aucun
    /\ UNCHANGED <<client, ecoles, retour, etapes, ipsCache, exitCode,
                   entree, sortie, cacheDisque>>
    /\ premiere' = SansPremiere

\* main: const ecoles = oraceService.loadEcoles();
\* if (ecoles.length === 0) throw new Error(...)
\* The call is over: its local Map and the trace of its units are gone.
MainVerifier ==
    /\ pc = "etape1"
    /\ lpc = "retour"
    /\ pc' = IF Len(retour) = 0 THEN "catch" ELSE "verifie"
    /\ lpc' = "repos"
    /\ iConfig' = 0
    /\ ecolesMap' = <<>>
    /\ partiels' = <<>>
    /\ dernier' = Aucun
    /\ UNCHANGED <<client, ecoles, retour, etapes, ipsCache, exitCode,
                   entree, sortie, cacheDisque>>
    /\ premiere' = SansPremiere

\* the uais main hands to the IPS service
uaisRegistre == [i \in 1..Len(retour) |-> retour[i].uai]

\* main, ÉTAPE 2.  index_csv and index_ods call getIPSBatch on a new
\* IPSService, whose ipsCache is null: it returns [] and main throws.
\* index_pdf calls loadDepartementIPS, which fills the cache from the cache
\* file or when the API answers with records; main throws when the list
\* returned is empty.
MainEtape2 ==
    /\ pc = "verifie"
    /\ etapes' = etapes \cup {"ips"}
    /\ IF client = "index_pdf"
       THEN \E reponse \in ReponsesAPI, ecrit \in BOOLEAN :
               LET charge == loadDepartementIPS(ipsCache, cacheDisque, FALSE,
                                                reponse, ecrit)
               IN  /\ ipsCache' = charge.ipsCache
                   /\ cacheDisque' = charge.cacheDisque
                   /\ pc' = IF Len(charge.retour) = 0 THEN "catch" ELSE "etape2"
       ELSE /\ pc' = IF Len(getIPSBatch(ipsCache, uaisRegistre)) = 0
                     THEN "catch" ELSE "etape2"
            /\ UNCHANGED <<ipsCache, cacheDisque>>
    /\ UNCHANGED <<client, lpc, iConfig, ecolesMap, ecoles, retour, partiels,
                   dernier, exitCode,
                   entree, sortie, premiere>>

\* main, ÉTAPE 3: the merge with the IPS records; throws when no public
\* school with an IPS is left
MainEtape3 ==
    /\ pc = "etape2"
    /\ etapes' = etapes \cup {"fusion"}
    /\ \E publiques \in BOOLEAN : pc' = IF publiques THEN "etape3" ELSE "catch"
    /\ UNCHANGED <<client, lpc, iConfig, ecolesMap, ecoles, retour, partiels,
                   dernier, ipsCache, exitCode,
                   entree, sortie, premiere, cacheDisque>>

\* main, ÉTAPE 4: the national references
MainEtape4 ==
    /\ pc = "etape3"
    /\ etapes' = etapes \cup {"references"}
    /\ pc' = "etape4"
    /\ UNCHANGED <<client, lpc, iConfig, ecolesMap, ecoles, retour, partiels,
                   dernier, ipsCache, exitCode,
                   entree, sortie, premiere, cacheDisque>>

\* main, ÉTAPE 5: the analyses; throws when none could be computed
MainEtape5 ==
    /\ pc = "etape4"
    /\ etapes' = etapes \cup {"analyses"}
    /\ \E calculees \in BOOLEAN : pc' = IF calculees THEN "etape5" ELSE "catch"
    /\ UNCHANGED <<client, lpc, iConfig, ecolesMap, ecoles, retour, partiels,
                   dernier, ipsCache, exitCode,
                   entree, sortie, premiere, cacheDisque>>

\* main, ÉTAPES 6 to 8: the views, the Excel export and (index_pdf) the
\* charts, then the normal end of the process
MainExports ==
    /\ pc = "etape5"
    /\ etapes' = etapes \cup {"syntheses", "excel"}
                        \cup (IF client = "index_pdf" THEN {"graphiques"} ELSE {})
    /\ pc' = "sorti"
    /\ exitCode' = 0
    /\ UNCHANGED <<client, lpc, iConfig, ecolesMap, ecoles, retour, partiels,
                   dernier, ipsCache,
                   entree, sortie, premiere, cacheDisque>>

\* main: catch (error) { ...; process.exit(1); }
MainCatch ==
    /\ pc = "catch"
    /\ pc' = "sorti"
    /\ exitCode' = 1
    /\ UNCHANGED <<client, lpc, iConfig, ecolesMap, ecoles, retour, partiels,
                   dernier, etapes, ipsCache,
                   entree, sortie, premiere, cacheDisque>>

\* A caller that calls loadEcoles a second time on the same service, the
\* files being what they were: const ecolesMap = new Map() again, while
\* this.ecoles keeps what the first call assigned.
Relancer ==
    /\ pc = "etape1"
    /\ lpc = "retour"
    /\ ~premiere.faite
    /\ premiere' = [faite |-> TRUE, retour |-> retour, ecoles |-> ecoles,
                    partiels |-> partiels, dernier |-> dernier]
    /\ lpc' = "boucle"
    /\ iConfig' = 0
    /\ ecolesMap' = <<>>
    /\ partiels' = <<>>
    /\ UNCHANGED <<client, pc, ecoles, retour, dernier, etapes, ipsCache,
                   exitCode, entree, sortie, cacheDisque>>

Next ==
    \/ MainEtape1
    \/ ChargerConfig
    \/ FinChargementCSV
    \/ ClasseurIllisible
    \/ TraiterFeuille
    \/ FinChargementODS
    \/ MainVerifier
    \/ MainEtape2
    \/ MainEtape3
    \/ MainEtape4
    \/ MainEtape5
    \/ MainExports
    \/ MainCatch

Spec == Init /\ [][Next]_vars

\* main, with a caller that may call loadEcoles twice
NextRelance ==
    \/ Next
    \/ Relancer

SpecRelance == Init /\ [][NextRelance]_vars


\* the keys held by the records of a registry
clesRegistre(liste) == UNION { DOMAIN liste[i].resultats : i \in 1..Len(liste) }

\* the keys of the registries the earlier calls of loadEcoles assigned
clesAnterieures == IF "cles" \in DOMAIN premiere THEN premiere.cles ELSE {}

\* A caller that calls loadEcoles again on the service of index_csv, files
\* having been removed or created since the call before: const ecolesMap = new Map()
\* again, while this.ecoles keeps what the call before assigned.
Recharger ==
    /\ client = "index_csv"
    /\ pc = "etape1"
    /\ lpc = "retour"
    /\ premiere' = [faite |-> FALSE, cles |-> clesRegistre(ecoles),
                    partiels |-> partiels]
    /\ lpc' = "boucle"
    /\ iConfig' = 0
    /\ ecolesMap' = <<>>
    /\ partiels' = <<>>
    /\ UNCHANGED <<client, pc, ecoles, retour, dernier, etapes, ipsCache,
                   exitCode, entree, sortie, cacheDisque>>

NextRecharge ==
    \/ Next
    \/ Recharger

SpecRecharge == Init /\ [][NextRecharge]_vars
\* ---------------------------------------------------------------------------
\* AnalyseService (regression on the IPS and categories)
\* ---------------------------------------------------------------------------

\* regressions[competence] when no regression was computed for the key
SansRegression == [absente |-> TRUE]

\* predictFromIPS(competence, ips): reg.a * ips + reg.b, null without regression
predictFromIPS(reg, ips) ==
    IF reg.absente THEN NUL ELSE ((reg.a * ips) \div Echelle) + reg.b

\* the default values of the parameters seuilLevier and seuilVigilance
SeuilLevierParDefaut == 7
SeuilVigilanceParDefaut == 0 - 7

\* the value categoriser returns when it cannot analyse
SansAnalyse == [nul |-> TRUE]

\* categoriser(ecole, competence, seuilLevier, seuilVigilance): resultatReel is
\* ecole.resultats[competence] (NUL when undefined), ips is ecole.ips
categoriser(resultatReel, ips, reg, seuilLevier, seuilVigilance) ==
    IF resultatReel = NUL \/ ips = 0 \/ ips = NUL
    THEN SansAnalyse
    ELSE LET attendu == predictFromIPS(reg, ips)
             ecart == resultatReel - attendu
         IN IF attendu = NUL \/ attendu = 0
            THEN SansAnalyse
            ELSE [nul |-> FALSE,
                  ecart |-> ecart,
                  categorie_code |->
                      IF ecart > seuilLevier * Echelle THEN "LEVIER"
                      ELSE IF ecart < seuilVigilance * Echelle THEN "VIGILANCE"
                      ELSE "CONFORME"]

(***************************************************************************)
(* The functions of the services called on their own                       *)
(***************************************************************************)

\* the variables of main and of loadEcoles
principales == <<client, pc, lpc, iConfig, ecolesMap, ecoles, retour, partiels,
                 dernier, etapes, ipsCache, exitCode, premiere, cacheDisque>>

\* the value a call returned
Rendu(val) == [fait |-> TRUE, val |-> val]

\* decimal numbers as the cells write them, each with its value
Nombre(texte, val) == [texte |-> texte, val |-> val]

Nombres ==
    { Nombre(<<"0">>, 0), Nombre(<<"1">>, Echelle), Nombre(<<"5", "0">>, 50 * Echelle),
      Nombre(<<"1", "0", "0">>, 100 * Echelle), Nombre(<<"1", "0", "5">>, 105 * Echelle),
      Nombre(<<"-", "5">>, 0 - 5 * Echelle), Nombre(<<"0", ".", "5">>, Echelle \div 2),
      Nombre(<<"0", ",", "5">>, Echelle \div 2), Nombre(<<"0", ",", "2", "5">>, Echelle \div 4),
      Nombre(<<"0", ".", "9", "9", "9">>, Echelle - 1), Nombre(<<"5", "0", ",", "5">>, 50 * Echelle + Echelle \div 2),
      Nombre(<<"6", "2", ",", "5">>, 62 * Echelle + Echelle \div 2), Nombre(<<"1", ".", "0">>, Echelle),
      Nombre(<<"9", "9", ".", "9">>, 100 * Echelle - Echelle \div 10) }

\* what surrounds the number in a cell
Avant == {<<>>, <<" ">>}
Apres == {<<>>, <<"%">>, <<" ", "%">>, <<"%", " ">>}

\* cells that hold a number
CellulesNombres ==
    {av \o n.texte \o ap : av \in Avant, n \in Nombres, ap \in Apres}

\* cells whose text, the "%" stripped and the comma replaced, is not a number
CellulesTextes ==
    {<<"a", "b", "s">>, <<"n", "/", "a">>, <<"%">>, <<" ">>, <<"-">>, <<"N", "R", " ", "%">>, <<"1", "2", "a", "b", "c">>, <<"3", " ", "é", "l", "è", "v", "e", "s">>, <<"5", "0", " ", "%", " ", "e", "n", "v", ".">>}

\* cells without content: null, undefined, ""
CellulesVides == {Nul, Indefini, <<>>}

EntreesParsePourcentage ==
    { [fn |-> "parsePourcentage", valeur |-> v] :
        v \in CellulesNombres \cup CellulesTextes \cup CellulesVides }

\* parsePourcentage(valeur)
AppelParsePourcentage ==
    /\ entree.fn = "parsePourcentage"
    /\ ~sortie.fait
    /\ sortie' = Rendu(parsePourcentage(entree.valeur))
    /\ UNCHANGED <<principales, entree>>

\* A grid of 12 rows: the identity of configuration i on row 1, one title on
\* row 3 over the columns 2 to 5, "Groupe satisfaisant" on row 7 at column
\* 4, "%" on row 8 at column 5, one school on row 12.
Grille12(i) ==
    [l \in 1..12 |->
        IF l = 1 THEN <<<<"E", "v", "a", "l", "u", "a", "t", "i", "o", "n", " ">> \o toUpperCase(configs[i].prefix) \o <<" ", "2", "0", "2", "5">>, V>>
        ELSE IF l = 3 THEN <<V, V, Titre1, V, V, V>>
        ELSE IF l = 7 THEN <<V, V, V, V, <<"G", "r", "o", "u", "p", "e", " ", "s", "a", "t", "i", "s", "f", "a", "i", "s", "a", "n", "t">>, V>>
        ELSE IF l = 8 THEN <<V, V, V, V, V, <<"%">>>>
        ELSE IF l = 12 THEN <<UAI1, <<"E", "c", "o", "l", "e", " ", "T", "e", "s", "t">>, <<"1", "2">>, <<"3">>, <<"5", ",", "5">>, <<"6", "2", ",", "5">>>>
        ELSE LigneVide]

\* the file of configuration i loaded under configuration j
EntreesChargerFichierCSV ==
    { [fn |-> "chargerFichierCSV",
       fichier |-> [etat |-> "ok", lignes |-> Grille12(i)],
       origine |-> i, config |-> j] :
        i \in 1..Len(configs), j \in 1..Len(configs) }

\* chargerFichierCSV(fichier, niveau, matiere)
AppelChargerFichierCSV ==
    /\ entree.fn = "chargerFichierCSV"
    /\ ~sortie.fait
    /\ sortie' = Rendu(chargerFichierCSV(entree.fichier,
                          configs[entree.config].niveau,
                          configs[entree.config].matiere))
    /\ UNCHANGED <<principales, entree>>

\* rows that may follow the percentage row
LignesCandidates ==
    { <<UAI1, <<"E", "c", "o", "l", "e", " ", "T", "e", "s", "t">>, <<"1", "2">>, <<"6", "2", ",", "5">>>>,
      <<<<" ", " ", "0", "0", "7", "0", "2", "0", "0", "A", " ">>, <<"E", "c", "o", "l", "e", " ", "B">>>>,
      <<<<"0", "0", "7">>,  <<"E", "c", "o", "l", "e", " ", "c", "o", "u", "r", "t", "e">>>>,
      <<<<" ", " ", "0", "0", "7", "0", "1", " ">>, <<"E", "c", "o", "l", "e">>>>,
      <<<<"C", "o", "d", "e", " ", "U", "A", "I">>, <<"N", "o", "m", " ", "d", "e", " ", "l", "'", "é", "c", "o", "l", "e">>>>,
      <<<<"T", "o", "t", "a", "l", " ", "c", "i", "r", "c", "o", "n", "s", "c", "r", "i", "p", "t", "i", "o", "n">>, <<"x">>>>,
      <<UAI1, V>>,
      <<UAI2, <<" ">>>>,
      LigneVide }

\* the rows 0 to 7 of a grid, the percentage row being row 7; row 4 looks
\* like a school
EnTete8 ==
    <<<<<<"E", "v", "a", "l", "u", "a", "t", "i", "o", "n", " ", "c", "p", "f", "r">>>>, LigneVide, TitresReguliers, LigneVide,
      <<UAI2, <<"E", "c", "o", "l", "e", " ", "B">>>>, LigneVide, GroupesReguliers, PctReguliers>>

\* Bound: at most MaxCandidates rows follow the percentage row.
MaxCandidates == 3

RECURSIVE Suites(_)
Suites(n) ==
    IF n = 0 THEN {<<>>}
    ELSE Suites(n - 1)
            \cup {Append(s, l) : s \in {t \in Suites(n - 1) : Len(t) = n - 1},
                                 l \in LignesCandidates}

EntreesTrouverPremiereEcole ==
    { [fn |-> "trouverPremiereEcole", lignes |-> EnTete8 \o s,
       lignePourcentages |-> Len(EnTete8) - 1] : s \in Suites(MaxCandidates) }

\* trouverPremiereEcole(lignes, lignePourcentages)
AppelTrouverPremiereEcole ==
    /\ entree.fn = "trouverPremiereEcole"
    /\ ~sortie.fait
    /\ sortie' = Rendu(trouverPremiereEcole(entree.lignes,
                                            entree.lignePourcentages))
    /\ UNCHANGED <<principales, entree>>

\* Bound: the width of the two spans of the title rows handed to
\* extraireCompetences.
LargeurPlage == 5

\* a row of 2 + 2 * LargeurPlage cells: texte1 at the offset o1 of the first
\* span, texte2 at the offset o2 of the second one (no text when the offset
\* is LargeurPlage), autre elsewhere in the spans
LignePlages(texte1, o1, texte2, o2, autre) ==
    [i \in 1..(2 + 2 * LargeurPlage) |->
        IF i <= 2 THEN V
        ELSE IF o1 < LargeurPlage /\ i - 3 = o1 THEN texte1
        ELSE IF o2 < LargeurPlage /\ i - 3 - LargeurPlage = o2 THEN texte2
        ELSE autre]

\* title rows, group rows and percentage rows: in each span, the label
\* "Groupe satisfaisant" and the marker sit at any offset, or are missing
EntreesExtraireCompetences ==
    { [fn |-> "extraireCompetences",
       ligne3 |-> LignePlages(Titre1, 0, Titre2, 0, V),
       ligneGroupes |-> LignePlages(<<"G", "r", "o", "u", "p", "e", " ", "s", "a", "t", "i", "s", "f", "a", "i", "s", "a", "n", "t">>, s1,
                                    <<"G", "r", "o", "u", "p", "e", " ", "S", "a", "t", "i", "s", "f", "a", "i", "s", "a", "n", "t", " ">>, s2, <<"G", "r", "o", "u", "p", "e", " ", "f", "r", "a", "g", "i", "l", "e">>),
       lignePourcentages |-> LignePlages(<<"%">>, m1, <<"N", "b", " ", "r", "é", "p", "o", "n", "d", "a", "n", "t", "s">>, m2, <<"N", "o", "m", "b", "r", "e">>)] :
        s1 \in 0..LargeurPlage, s2 \in 0..LargeurPlage,
        m1 \in 0..LargeurPlage, m2 \in 0..LargeurPlage }

\* extraireCompetences(ligne3, ligneGroupes, lignePourcentages)
AppelExtraireCompetences ==
    /\ entree.fn = "extraireCompetences"
    /\ ~sortie.fait
    /\ sortie' = Rendu(extraireCompetences(entree.ligne3, entree.ligneGroupes,
                                           entree.lignePourcentages))
    /\ UNCHANGED <<principales, entree>>

\* A regular sheet of two competencies: each span holds nbGroupes groups of
\* two columns (number, percentage), the satisfactory group being the
\* group rang.  marque is the cell before the titles.  The labels of the
\* groups are written in full on the row libelles (3 to 5; 0: on no row)
\* and, when enDeuxLignes, as a group row 6 over a percentage row 7.
GrilleReguliere(marque, nbGroupes, rang, libelles, enDeuxLignes) ==
    LET largeur == 2 * nbGroupes
        groupe(c) == IF ((c - 2) % largeur) \div 2 = rang - 1
                     THEN <<"s", "a", "t", "i", "s", "f", "a", "i", "s", "a", "n", "t">> ELSE <<"f", "r", "a", "g", "i", "l", "e">>
        pair(c) == (c - 2) % 2 = 0
        cellule(r, c) ==
            IF r = 0 THEN (IF c = 0 THEN <<"E", "v", "a", "l", "u", "a", "t", "i", "o", "n", " ", "c", "p", "f", "r">> ELSE V)
            ELSE IF r = LigneTitres
                 THEN (IF c = 1 THEN marque
                       ELSE IF c = 2 THEN Titre1
                       ELSE IF c = 2 + largeur THEN Titre2
                       ELSE V)
            ELSE IF c < 2 THEN V
            ELSE IF r = libelles
                 THEN (IF pair(c) THEN <<"N", "o", "m", "b", "r", "e", " ", "g", "r", "o", "u", "p", "e", " ">> ELSE <<"%", " ", "g", "r", "o", "u", "p", "e", " ">>) \o groupe(c)
            ELSE IF enDeuxLignes /\ r = 6
                 THEN (IF pair(c) THEN <<"G", "r", "o", "u", "p", "e", " ">> \o groupe(c) ELSE V)
            ELSE IF enDeuxLignes /\ r = 7
                 THEN (IF pair(c) THEN <<"N", "o", "m", "b", "r", "e">> ELSE <<"%">>)
            ELSE V
    IN  [nom |-> <<"C", "P", "F", "R">>, etat |-> "ok",
         lignes |-> [r \in 1..10 |-> [c \in 1..(2 + 2 * largeur) |-> cellule(r - 1, c - 1)]],
         fusions |-> <<Fusion(LigneTitres, 2 + largeur, 1 + 2 * largeur),
                       Fusion(LigneTitres, 2, 1 + largeur),
                       Fusion(0, 0, 1 + 2 * largeur)>>]

\* Bound: the number of groups of a competency of the regular sheets.
MaxGroupes == 2

GrillesRegulieres ==
    { GrilleReguliere(marque, n, rang, libelles, deux) :
        marque \in {<<"C", "o", "m", "p", "é", "t", "e", "n", "c", "e">>, V}, n \in 1..MaxGroupes, rang \in 1..MaxGroupes,
        libelles \in {0} \cup (LigneLabelsDebut..LigneLabelsFin), deux \in BOOLEAN }

\* the sheets, with their merges and without them
EntreesAnalyserStructure ==
    { [fn |-> "analyserStructureAvecFusions", feuille |-> f] :
        f \in GrillesRegulieres
              \cup {[g EXCEPT !.fusions = <<>>] : g \in GrillesRegulieres} }

\* analyserStructureAvecFusions(sheet, sheetName)
AppelAnalyserStructureAvecFusions ==
    /\ entree.fn = "analyserStructureAvecFusions"
    /\ ~sortie.fait
    /\ sortie' = Rendu(analyserStructureAvecFusions(entree.feuille))
    /\ UNCHANGED <<principales, entree>>

\* first rows: those of the file of configuration j (the title in the first
\* or in the second cell, in capitals or not), rows without a full title, a
\* row without any cell
PremieresLignes(j) ==
    { <<<<"E", "v", "a", "l", "u", "a", "t", "i", "o", "n", " ">> \o toUpperCase(configs[j].prefix) \o <<" ", "2", "0", "2", "5">>, V>>,
      <<V, <<" ", " ", "R", "é", "s", "u", "l", "t", "a", "t", "s", " ", "-", " ", "e", "v", "a", "l", "u", "a", "t", "i", "o", "n", " ">> \o configs[j].prefix>>,
      <<Nul, <<"E", "V", "A", "L", "U", "A", "T", "I", "O", "N", " ">> \o toUpperCase(configs[j].prefix)>>,
      <<<<"e", "v", "a", "l", "u", "a", "t", "i", "o", "n">>, configs[j].prefix>>,
      <<<<"E", "v", "a", "l", "u", "a", "t", "i", "o", "n", " ", " ">> \o configs[j].prefix>>,
      <<<<"E", "x", "p", "o", "r", "t", " ", "O", "R", "A", "C", "E">>, V>>,
      <<>> }

\* the first row of the file of configuration j, validated for configuration i
EntreesValiderIdentification ==
    UNION { { [fn |-> "validerIdentification", ligne1 |-> l,
               origine |-> j, config |-> i] :
                i \in 1..Len(configs), l \in PremieresLignes(j) } :
            j \in 1..Len(configs) }

\* the file without any row: lignes[0] is undefined
EntreesSansPremiereLigne ==
    { [fn |-> "validerIdentification", ligne1 |-> Indefini,
       origine |-> i, config |-> i] : i \in 1..Len(configs) }

\* validerIdentification(ligne1, niveau, matiere)
AppelValiderIdentification ==
    /\ entree.fn = "validerIdentification"
    /\ ~sortie.fait
    /\ sortie' = Rendu(validerIdentification(entree.ligne1,
                          configs[entree.config].niveau,
                          configs[entree.config].matiere))
    /\ UNCHANGED <<principales, entree>>


\* Results of one school on one competency, every half point from 40 to 60,
\* and undefined
ResultatsReels == { (k * Echelle) \div 2 : k \in 80..120 } \cup {NUL}

\* regressions giving 50 and 51 points at the IPS 100, and none
Regressions ==
    { SansRegression,
      [absente |-> FALSE, a |-> 0, b |-> 50 * Echelle],
      [absente |-> FALSE, a |-> Echelle \div 10, b |-> 41 * Echelle] }

EntreesCategoriser ==
    { [fn |-> "categoriser", resultatReel |-> r, ips |-> i, reg |-> g] :
        r \in ResultatsReels, i \in {0, 100 * Echelle}, g \in Regressions }

\* this.categoriser(ecole, competence), as analyserTout calls it
AppelCategoriser ==
    /\ entree.fn = "categoriser"
    /\ ~sortie.fait
    /\ sortie' = Rendu(categoriser(entree.resultatReel, entree.ips, entree.reg,
                                   SeuilLevierParDefaut, SeuilVigilanceParDefaut))
    /\ UNCHANGED <<principales, entree>>

\* Bound: the number of cells of the title rows built from CellulesTitres.
LargeurTitres == 4

\* what a cell of a title row may hold: nothing, a title, a text too short,
\* a column-category header
CellulesTitres == {V, Titre1, Titre2, <<"L", "e", "c", "t", "u", "r", "e">>, <<"S", "c", "o", "r", "e", "s", " ", "p", "a", "r", " ", "e", "x", "e", "r", "c", "i", "c", "e">>}

\* the rows of n cells over CellulesTitres
LignesTitres(n) == [1..n -> CellulesTitres]

\* title rows after two empty cells, over a group row holding "Groupe
\* satisfaisant" and a percentage row holding "%" in every column
EntreesLignesTitres ==
    { [fn |-> "extraireCompetences",
       ligne3 |-> <<V, V>> \o l,
       ligneGroupes |-> [i \in 1..(2 + LargeurTitres) |-> <<"G", "r", "o", "u", "p", "e", " ", "s", "a", "t", "i", "s", "f", "a", "i", "s", "a", "n", "t">>],
       lignePourcentages |-> [i \in 1..(2 + LargeurTitres) |-> <<"%">>]] :
        l \in LignesTitres(LargeurTitres) }

\* A sheet whose row 3 holds "Compétence" in column B, then the cells of
\* titres, each over two columns (merged when avecFusions); row 6 holds the
\* labels of the satisfactory group.
FeuilleTitres(titres, avecFusions) ==
    LET cellule(r, c) ==
            IF r = LigneTitres
            THEN (IF c = 1 THEN <<"C", "o", "m", "p", "é", "t", "e", "n", "c", "e">>
                  ELSE IF c >= 2 /\ c % 2 = 0 THEN titres[c \div 2]
                  ELSE V)
            ELSE IF r = LigneGroupesClassique /\ c >= 2
                 THEN (IF c % 2 = 0 THEN <<"N", "o", "m", "b", "r", "e", " ", "g", "r", "o", "u", "p", "e", " ", "s", "a", "t", "i", "s", "f", "a", "i", "s", "a", "n", "t">>
                       ELSE <<"%", " ", "g", "r", "o", "u", "p", "e", " ", "s", "a", "t", "i", "s", "f", "a", "i", "s", "a", "n", "t">>)
            ELSE V
    IN  [nom |-> <<"C", "P", "F", "R">>, etat |-> "ok",
         lignes |-> [r \in 1..10 |->
                        [c \in 1..(2 + 2 * Len(titres)) |-> cellule(r - 1, c - 1)]],
         fusions |-> IF avecFusions
                     THEN [k \in 1..Len(titres) |-> Fusion(LigneTitres, 2 * k, 2 * k + 1)]
                     ELSE <<>>]

EntreesFeuillesTitres ==
    { [fn |-> "analyserStructureAvecFusions", feuille |-> FeuilleTitres(l, f)] :
        l \in LignesTitres(LargeurTitres), f \in BOOLEAN }

\* Bound: the number of rows of the grids handed to trouverLigneGroupes.
MaxLignesGrille == 12

\* the rows that may hold the label of the satisfactory group: before the
\* window, at its two ends and inside it, after it
LignesAvecGroupe == {0, 1, 2, 5, 9, 10, 11}

\* grids of n rows (n up to MaxLignesGrille) whose rows of avec hold "Groupe
\* Satisfaisant" in their second cell, the other rows a text and an empty cell
EntreesTrouverLigneGroupes ==
    { [fn |-> "trouverLigneGroupes",
       lignes |-> [r \in 1..n |->
                      IF (r - 1) \in avec
                      THEN <<Nul, <<"G", "r", "o", "u", "p", "e", " ", "S", "a", "t", "i", "s", "f", "a", "i", "s", "a", "n", "t", " ">>>>
                      ELSE <<<<"G", "r", "o", "u", "p", "e", " ", "f", "r", "a", "g", "i", "l", "e">>, V>>]] :
        n \in 0..MaxLignesGrille, avec \in SUBSET LignesAvecGroupe }

\* trouverLigneGroupes(lignes)
AppelTrouverLigneGroupes ==
    /\ entree.fn = "trouverLigneGroupes"
    /\ ~sortie.fait
    /\ sortie' = Rendu(trouverLigneGroupes(entree.lignes))
    /\ UNCHANGED <<principales, entree>>

\* A grid of configuration 1: the identity on row 1, one title on row 3,
\* "Groupe satisfaisant" on the row of index g, "%" on the row of index p,
\* then the rows of suite.
GrilleAncres(g, p, suite) ==
    [l \in 1..(p + 1) |->
        IF l = 1 THEN <<<<"E", "v", "a", "l", "u", "a", "t", "i", "o", "n", " ", "c", "p", "f", "r">>, V>>
        ELSE IF l = 3 THEN <<V, V, Titre1, V>>
        ELSE IF l = g + 1 THEN <<V, V, <<"G", "r", "o", "u", "p", "e", " ", "s", "a", "t", "i", "s", "f", "a", "i", "s", "a", "n", "t">>, V>>
        ELSE IF l = p + 1 THEN <<V, V, <<"N", "o", "m", "b", "r", "e">>, <<"%">>>>
        ELSE LigneVide] \o suite

\* what may follow the percentage row: nothing, a school, a row whose
\* identifier is too short to be that of a school, a school followed by
\* such a row, by a row without name, by a row of column labels
SuitesAncres ==
    { <<>>,
      << <<UAI1, <<"E", "c", "o", "l", "e", " ", "T", "e", "s", "t">>, <<"1", "2">>, <<"6", "2", ",", "5">>>> >>,
      << <<<<"0", "0", "7", "A">>, <<"E", "c", "o", "l", "e", " ", "c", "o", "u", "r", "t", "e">>, <<"1", "2">>, <<"6", "2", ",", "5">>>> >>,
      << <<UAI1, <<"E", "c", "o", "l", "e", " ", "T", "e", "s", "t">>, <<"1", "2">>, <<"6", "2", ",", "5">>>>, <<<<"0", "0", "7", "A">>, <<"E", "c", "o", "l", "e", " ", "c", "o", "u", "r", "t", "e">>, <<"1", "2">>, <<"4", "0">>>> >>,
      << <<UAI1, <<"E", "c", "o", "l", "e", " ", "T", "e", "s", "t">>, <<"1", "2">>, <<"6", "2", ",", "5">>>>, <<UAI2, V, <<"1", "2">>, <<"4", "0">>>> >>,
      << <<UAI1, <<"E", "c", "o", "l", "e", " ", "T", "e", "s", "t">>, <<"1", "2">>, <<"6", "2", ",", "5">>>>, <<<<"C", "o", "d", "e", " ", "U", "A", "I">>, <<"N", "o", "m">>, <<"1", "2">>, <<"4", "0">>>> >> }

\* the group row anywhere in its window but on the title row, the
\* percentage row on one of the three rows after it; the file is loaded
\* under configuration 1 and is none of the grids of 12 rows (origine 0)
EntreesAncres ==
    { [fn |-> "chargerFichierCSV",
       fichier |-> [etat |-> "ok", lignes |-> GrilleAncres(g, g + d, s)],
       origine |-> 0, config |-> 1] :
        g \in (GroupesDebut + 1)..(GroupesFin - 1),
        d \in 1..(FenetrePourcentages - 1), s \in SuitesAncres }
InitFonctions ==
    /\ \/ entree \in EntreesParsePourcentage
       \/ entree \in EntreesChargerFichierCSV
       \/ entree \in EntreesTrouverPremiereEcole
       \/ entree \in EntreesExtraireCompetences
       \/ entree \in EntreesAnalyserStructure
       \/ entree \in EntreesValiderIdentification
       \/ entree \in EntreesSansPremiereLigne
       \/ entree \in EntreesCategoriser
       \/ entree \in EntreesLignesTitres
       \/ entree \in EntreesFeuillesTitres
       \/ entree \in EntreesTrouverLigneGroupes
       \/ entree \in EntreesAncres
    /\ sortie = EnAttente
    /\ client = "index_csv"
    /\ pc = "debut"
    /\ lpc = "repos"
    /\ iConfig = 0
    /\ ecolesMap = <<>>
    /\ ecoles = <<>>
    /\ retour = <<>>
    /\ partiels = <<>>
    /\ dernier = Aucun
    /\ etapes = {}
    /\ ipsCache = CacheNul
    /\ cacheDisque = SansFichier
    /\ exitCode = NUL
    /\ premiere = SansPremiere

NextFonctions ==
    \/ AppelParsePourcentage
    \/ AppelChargerFichierCSV
    \/ AppelTrouverPremiereEcole
    \/ AppelExtraireCompetences
    \/ AppelAnalyserStructureAvecFusions
    \/ AppelValiderIdentification
    \/ AppelCategoriser
    \/ AppelTrouverLigneGroupes

SpecFonctions == InitFonctions /\ [][NextFonctions]_vars


(***************************************************************************)
(* The IPS service on its own: a caller that awaits each of its calls of   *)
(* loadDepartementIPS and clearCache on one department, while the cache    *)
(* file grows old.                                                         *)
(***************************************************************************)

InitIPS ==
    /\ ipsCache = CacheNul
    /\ cacheDisque \in FichiersCache
    /\ entree = SansAppel
    /\ sortie = EnAttente
    /\ client = "index_pdf"
    /\ pc = "debut"
    /\ lpc = "repos"
    /\ iConfig = 0
    /\ ecolesMap = <<>>
    /\ ecoles = <<>>
    /\ retour = <<>>
    /\ partiels = <<>>
    /\ dernier = Aucun
    /\ etapes = {}
    /\ exitCode = NUL
    /\ premiere = SansPremiere

\* the variables the IPS service does not touch
horsIPS == <<client, pc, lpc, iConfig, ecolesMap, ecoles, retour, partiels,
             dernier, etapes, exitCode, premiere>>

\* await ipsService.loadDepartementIPS(codeDepartement, forceRefresh): the
\* call records what it found (cacheAvant, disqueAvant) and what it did
AppelLoadDepartementIPS ==
    \E forceRefresh \in BOOLEAN, reponse \in ReponsesAPI, ecrit \in BOOLEAN :
        LET charge == loadDepartementIPS(ipsCache, cacheDisque, forceRefresh,
                                         reponse, ecrit)
        IN  /\ entree' = [fn |-> "loadDepartementIPS",
                          forceRefresh |-> forceRefresh,
                          cacheAvant |-> ipsCache, disqueAvant |-> cacheDisque]
            /\ sortie' = [fait |-> TRUE, val |-> charge.retour, api |-> charge.api]
            /\ ipsCache' = charge.ipsCache
            /\ cacheDisque' = charge.cacheDisque
            /\ UNCHANGED horsIPS

\* clearCache(identifier): the file is removed when it exists, this.ipsCache
\* is set to null
AppelClearCache ==
    /\ entree' = [fn |-> "clearCache"]
    /\ sortie' = Rendu(Indefini)
    /\ cacheDisque' = SansFichier
    /\ ipsCache' = CacheNul
    /\ UNCHANGED horsIPS

\* 30 days go by since the file was written
Vieillir ==
    /\ cacheDisque.existe
    /\ cacheDisque.recent
    /\ cacheDisque' = [cacheDisque EXCEPT !.recent = FALSE]
    /\ UNCHANGED <<horsIPS, ipsCache, entree, sortie>>

NextIPS ==
    \/ AppelLoadDepartementIPS
    \/ AppelClearCache
    \/ Vieillir

SpecIPS == InitIPS /\ [][NextIPS]_vars
\* The check of what loadEcoles returned and the catch of main are
\* synchronous code: once reached, they run (the only wait of main, on the
\* standard input, comes after the check has passed).
FairSpec == Spec /\ WF_vars(MainVerifier) /\ WF_vars(MainCatch)

(***************************************************************************)
(* Properties                                                              *)
(***************************************************************************)

\* the units processed so far by the running loadEcoles
Traitees == 1..Len(partiels)

\* the partial records unit i yielded for the school uai
fichesUnite(i, uai) ==
    {a \in 1..Len(partiels[i].ecoles) : partiels[i].ecoles[a].uai = uai}

\* the schools for which unit i yielded a partial record
uaisUnite(i) == {partiels[i].ecoles[a].uai : a \in 1..Len(partiels[i].ecoles)}

\* the keys unit i yielded for the school uai
clesUnite(i, uai) ==
    UNION {DOMAIN partiels[i].ecoles[a].resultats : a \in fichesUnite(i, uai)}

\* the value unit i produced for key k of the school uai: that of its last
\* partial record holding the key
valeurUnite(i, uai, k) ==
    LET avec == {a \in fichesUnite(i, uai) : k \in DOMAIN partiels[i].ecoles[a].resultats}
        a == CHOOSE x \in avec : \A y \in avec : y <= x
    IN  partiels[i].ecoles[a].resultats[k]

\* the records of the registry for the school uai
fichesRegistre(uai) == {m \in 1..Len(ecolesMap) : ecolesMap[m].uai = uai}

\* the registry obtained from a sequence of units
RECURSIVE registre(_)
registre(unites) ==
    IF unites = <<>> THEN <<>>
    ELSE fusionner(registre(SubSeq(unites, 1, Len(unites) - 1)),
                   unites[Len(unites)].ecoles)

\* the units processed so far, unit i left out
sansUnite(i) ==
    SubSeq(partiels, 1, i - 1) \o SubSeq(partiels, i + 1, Len(partiels))

\* the prefix of the keys of unit i
prefixeCles(i) == configs[i].niveau \o <<"_">> \o configs[i].matiere \o <<"_">>

\* C1: for every competency the resolver produced for a unit, in every mode,
\* the resolved value column lies inside the span of the competency:
\* colDebut <= colonne <= colFin.
C1_ColonneDansPlage ==
    \A i \in Traitees : \A k \in 1..Len(partiels[i].competences) :
        LET comp == partiels[i].competences[k]
        IN  comp.colDebut <= comp.colonne /\ comp.colonne <= comp.colFin

\* C2: once loadEcoles has returned, in flat-file and in workbook mode alike,
\* every record it returned has a non-empty results map.
C2_ResultatsNonVides ==
    lpc = "retour" =>
        \A m \in 1..Len(retour) : DOMAIN retour[m].resultats # {}

\* C3: every value stored in the results map of a record of the registry is
\* a percentage between 0 and 100.
C3_PourcentagesBornes ==
    \A m \in 1..Len(ecolesMap) : \A k \in DOMAIN ecolesMap[m].resultats :
        /\ 0 <= ecolesMap[m].resultats[k]
        /\ ecolesMap[m].resultats[k] <= 100 * Echelle

\* C4: when two distinct units (they have distinct level and subject) each
\* yielded a partial record for the same school, the registry holds exactly
\* one record for that school, its keys are the union of the keys the units
\* yielded for it, and each key has the value its unit produced.
C4_FusionParUnion ==
    \A i \in Traitees : \A j \in Traitees \ {i} :
        \A uai \in uaisUnite(i) \cap uaisUnite(j) :
            /\ Cardinality(fichesRegistre(uai)) = 1
            /\ \A m \in fichesRegistre(uai) :
                  /\ DOMAIN ecolesMap[m].resultats
                        = UNION {clesUnite(u, uai) : u \in Traitees}
                  /\ \A u \in {i, j} : \A k \in clesUnite(u, uai) :
                        ecolesMap[m].resultats[k] = valeurUnite(u, uai, k)

\* C4, its case: the two units yielded keys for the same school, and the
\* record of the school holds more keys than either unit yielded.
C4_Temoin ==
    /\ Len(partiels) = 2
    /\ \E uai \in uaisUnite(1) \cap uaisUnite(2) : \E m \in fichesRegistre(uai) :
          /\ clesUnite(1, uai) # {}
          /\ clesUnite(2, uai) # {}
          /\ Cardinality(DOMAIN ecolesMap[m].resultats)
                = Cardinality(clesUnite(1, uai)) + Cardinality(clesUnite(2, uai))

\* C5: across the merge steps of one loadEcoles run the registry only grows:
\* every record of the registry is still there after the step, with at least
\* the keys it had.
C5_RegistreCroissant ==
    [][lpc = "boucle" =>
          \A m \in 1..Len(ecolesMap) : \E n \in 1..Len(ecolesMap') :
              /\ ecolesMap'[n].uai = ecolesMap[m].uai
              /\ DOMAIN ecolesMap[m].resultats \subseteq DOMAIN ecolesMap'[n].resultats]_vars

\* C5, its case: a second unit has been merged into a registry that held
\* records, and added a school to it.
C5_Temoin ==
    /\ Len(partiels) = 2
    /\ partiels[1].ecoles # <<>>
    /\ partiels[2].ecoles # <<>>
    /\ Len(ecolesMap) > Cardinality(uaisUnite(1))

\* the first row of the file of unit i holds, in none of its cells, the
\* token "evaluation <prefix>" of the configuration
identiteAbsente(i) ==
    /\ partiels[i].etat = "ok"
    /\ \A c \in 1..Len(partiels[i].ligne1) :
          ~includes(toLowerCase(partiels[i].ligne1[c]),
                    <<"e", "v", "a", "l", "u", "a", "t", "i", "o", "n", " ">> \o configs[i].prefix)

\* C6: a flat-file unit whose first row does not hold the expected identity
\* token yields no record, no key of that unit is in the registry, and the
\* registry is what the other units alone produce.
C6_IdentiteRejetee ==
    client \in ClientsCSV =>
        \A i \in Traitees : identiteAbsente(i) =>
            /\ partiels[i].ecoles = <<>>
            /\ \A m \in 1..Len(ecolesMap) : \A k \in DOMAIN ecolesMap[m].resultats :
                  substring(k, Len(prefixeCles(i))) # prefixeCles(i)
            /\ ecolesMap = registre(sansUnite(i))

\* C6, its case: of two flat-file units, one has a first row without its
\* token and the other has put records into the registry.
C6_Temoin ==
    /\ client \in ClientsCSV
    /\ Len(partiels) = 2
    /\ \E i \in Traitees : identiteAbsente(i)
    /\ Len(ecolesMap) > 0

\* C7: in both modes, when loadEcoles returns after a unit was missing,
\* unreadable or raised, every unit has been processed and every school a
\* unit yielded is in the registry returned.
C7_UnitesIsolees ==
    (lpc = "retour" /\ dernier.issue # "classeur") =>
        /\ Len(partiels) = NbUnites
        /\ \A i \in Traitees : \A uai \in uaisUnite(i) : MapHas(retour, uai)

\* C8: a flat-file unit without group row, without percentage row or without
\* any competency span yields an empty list, none of its data rows is read,
\* and loadEcoles goes on to the next unit.
C8_StructureRejetee ==
    client \in ClientsCSV =>
        \A i \in Traitees :
            partiels[i].issue \in {"groupes", "pourcentages", "competences"} =>
                /\ partiels[i].ecoles = <<>>
                /\ partiels[i].lignesEcoles = <<>>
                /\ lpc = "boucle" \/ Len(partiels) = NbUnites

\* C8, its case: the first flat-file unit was rejected for its structure and
\* the second one has put records into the registry.
C8_Temoin ==
    /\ client \in ClientsCSV
    /\ Len(partiels) = 2
    /\ partiels[1].issue \in {"groupes", "pourcentages", "competences"}
    /\ partiels[1].etat = "ok"
    /\ partiels[2].ecoles # <<>>

\* the text of the school identifier of a data row
uaiLigne(ligne) == trim(OuVide(Elt(ligne, 0)))

\* C9: in every data row read of the unit just processed (trailer rows
\* aside), each competency whose cell parses is recorded under its key with
\* the parsed value, in the partial record of the row and in the registry,
\* whatever the other cells of the row and the other rows hold.
C9_CelluleIsolee ==
    \A l \in 1..Len(dernier.lignesEcoles) : \A c \in 1..Len(dernier.competences) :
        LET ligne == dernier.lignesEcoles[l]
            comp == dernier.competences[c]
            unite == configs[Len(partiels)]
            valeur == parsePourcentage(Elt(ligne, comp.colonne))
            cle == cleCompetence(unite.niveau, unite.matiere, comp.nom)
        IN  (~ligneIgnoree(uaiLigne(ligne)) /\ valeur # NUL) =>
                /\ \E a \in 1..Len(dernier.ecoles) :
                      /\ dernier.ecoles[a].uai = uaiLigne(ligne)
                      /\ cle \in DOMAIN dernier.ecoles[a].resultats
                      /\ dernier.ecoles[a].resultats[cle] = valeur
                /\ \E m \in fichesRegistre(uaiLigne(ligne)) :
                      cle \in DOMAIN ecolesMap[m].resultats

\* C9, its case: a data row of the unit just processed, with one cell that
\* parses and one that does not, has yielded a partial record with the key
\* of the first only.
C9_Temoin ==
    \E l \in 1..Len(dernier.lignesEcoles) : \E c, d \in 1..Len(dernier.competences) :
        LET ligne == dernier.lignesEcoles[l]
            comps == dernier.competences
        IN  /\ ~ligneIgnoree(uaiLigne(ligne))
            /\ parsePourcentage(Elt(ligne, comps[c].colonne)) # NUL
            /\ parsePourcentage(Elt(ligne, comps[d].colonne)) = NUL
            /\ \E a \in 1..Len(dernier.ecoles) :
                  /\ dernier.ecoles[a].uai = uaiLigne(ligne)
                  /\ Cardinality(DOMAIN dernier.ecoles[a].resultats) = 1

\* loadEcoles has returned a registry without any record
registreVide == lpc = "retour" /\ Len(retour) = 0

\* main has gone past its check of a registry without any record
apresRegistreVide == pc \notin {"debut", "etape1"} /\ Len(retour) = 0

\* C10: when loadEcoles returns a registry without any record, main goes to
\* its catch and exits with status 1, and no stage after the loading is ever
\* started.
C10_RegistreVideFatal ==
    /\ [](apresRegistreVide =>
            /\ pc \in {"catch", "sorti"}
            /\ etapes = {"orace"}
            /\ pc = "sorti" => exitCode = 1)
    /\ (registreVide ~> (pc = "sorti" /\ exitCode = 1 /\ etapes = {"orace"}))

\* C10, its case: the loading stage ran, the registry it returned holds no
\* record, and main has exited with status 1.
C10_Temoin ==
    /\ Len(retour) = 0
    /\ etapes = {"orace"}
    /\ pc = "sorti"
    /\ exitCode = 1

\* C11: the grid of 12 rows with a valid identity row, the title "Lecture de
\* mots (10 points)" on row 3 over the columns 2 to 5, "Groupe satisfaisant"
\* on row 7 at column 4, "%" on row 8 at column 5 and one school on row 12
\* yields exactly one record, of the school "0070116N", whose results map
\* holds 62.5 under the key of the level, the subject and
\* "Lecture_de_mots_10_points".
C11_ScenarioComplet ==
    (entree.fn = "chargerFichierCSV" /\ sortie.fait
        /\ entree.origine = entree.config) =>
            LET unite == configs[entree.config]
                cle == unite.niveau \o <<"_">> \o unite.matiere
                           \o <<"_", "L", "e", "c", "t", "u", "r", "e", "_", "d", "e", "_", "m", "o", "t", "s", "_", "1", "0", "_", "p", "o", "i", "n", "t", "s">>
            IN  /\ Len(sortie.val.ecoles) = 1
                /\ sortie.val.ecoles[1].uai = <<"0", "0", "7", "0", "1", "1", "6", "N">>
                /\ cle \in DOMAIN sortie.val.ecoles[1].resultats
                /\ sortie.val.ecoles[1].resultats[cle] = 62 * Echelle + Echelle \div 2

\* C11, its case: the grid of the CE1 mathematics file, loaded as such, has
\* yielded a record with one result.
C11_Temoin ==
    /\ entree.fn = "chargerFichierCSV"
    /\ entree.origine = 4
    /\ entree.config = 4
    /\ sortie.fait
    /\ sortie.val.issue = "ok"
    /\ Len(sortie.val.ecoles) = 1
    /\ Cardinality(DOMAIN sortie.val.ecoles[1].resultats) = 1

\* the value a cell holding a number must give: a fraction is scaled
pourcentageAttendu(val) == IF val > 0 /\ val < Echelle THEN 100 * val ELSE val

\* C12: parsePourcentage strips the "%" and the blanks around the number,
\* reads a decimal comma as a point, multiplies by 100 a value strictly
\* between 0 and 1 and returns any other value unchanged; "50%", "50,5 %",
\* "0.5", "105", "" and null give 50, 50.5, 50, 105, null and null.
C12_PourcentageNormalise ==
    (entree.fn = "parsePourcentage" /\ sortie.fait) =>
        /\ \A av \in Avant : \A n \in Nombres : \A ap \in Apres :
              entree.valeur = av \o n.texte \o ap =>
                  sortie.val = pourcentageAttendu(n.val)
        /\ entree.valeur = <<"5", "0", "%">> => sortie.val = 50 * Echelle
        /\ entree.valeur = <<"5", "0", ",", "5", " ", "%">> => sortie.val = 50 * Echelle + Echelle \div 2
        /\ entree.valeur = <<"0", ".", "5">> => sortie.val = 50 * Echelle
        /\ entree.valeur = <<"1", "0", "5">> => sortie.val = 105 * Echelle
        /\ entree.valeur = <<>> => sortie.val = NUL
        /\ entree.valeur = Nul => sortie.val = NUL

\* C12, its case: a cell with a decimal comma, a blank and a "%" that
\* writes a fraction has been parsed and scaled.
C12_Temoin ==
    /\ entree.fn = "parsePourcentage"
    /\ entree.valeur = <<"0", ",", "2", "5", " ", "%">>
    /\ sortie.fait
    /\ sortie.val = 25 * Echelle

\* C13: parsePourcentage returns null for null, undefined, the empty string
\* and every cell whose text is not a number once the "%" is stripped and
\* the comma replaced, text after a number included.
C13_NonNombreNul ==
    (entree.fn = "parsePourcentage" /\ sortie.fait
        /\ entree.valeur \in CellulesTextes \cup CellulesVides) =>
            sortie.val = NUL

\* the identifier of a row: its column 0, trimmed
identifiant(ligne) == trim(OuVide(Elt(ligne, 0)))

\* a row that looks like a school: an identifier of 7 characters or more
\* without "uai", "total" or "circonscription", and a name
ressembleEcole(ligne) ==
    /\ Len(identifiant(ligne)) >= 7
    /\ \A mot \in {<<"u", "a", "i">>, <<"t", "o", "t", "a", "l">>, <<"c", "i", "r", "c", "o", "n", "s", "c", "r", "i", "p", "t", "i", "o", "n">>} :
          ~includes(toLowerCase(identifiant(ligne)), mot)
    /\ trim(OuVide(Elt(ligne, 1))) # <<>>

\* the rows after the percentage row that look like a school
lignesQualifiees ==
    {i \in (entree.lignePourcentages + 1)..(Len(entree.lignes) - 1) :
        ressembleEcole(Elt(entree.lignes, i))}

\* C14: trouverPremiereEcole returns the index of the first row after the
\* percentage row whose trimmed column 0 has 7 characters or more and none
\* of "uai", "total", "circonscription", and whose column 1 is not empty;
\* when no row qualifies it returns 10, and only then may the row returned
\* have a shorter identifier.
C14_PremiereEcole ==
    (entree.fn = "trouverPremiereEcole" /\ sortie.fait) =>
        IF lignesQualifiees # {}
        THEN /\ sortie.val \in lignesQualifiees
             /\ \A i \in lignesQualifiees : sortie.val <= i
             /\ Len(identifiant(Elt(entree.lignes, sortie.val))) >= 7
        ELSE sortie.val = 10

\* C14, its case: a row with a short identifier follows the percentage row,
\* then a school, which is the row returned.
C14_Temoin ==
    /\ entree.fn = "trouverPremiereEcole"
    /\ sortie.fait
    /\ Len(entree.lignes) = 10
    /\ Len(identifiant(Elt(entree.lignes, 8))) \in 1..6
    /\ lignesQualifiees = {9}
    /\ sortie.val = 9

\* the cell of a row at a column, lower-cased and trimmed
libelle(ligne, col) == trim(toLowerCase(OuVide(Elt(ligne, col))))

\* the first column of colDebut..colFin whose group cell holds "satisfaisant"
\* (colFin + 1 when none does)
colonneSatisfaisant(comp) ==
    LET cols == {c \in comp.colDebut..comp.colFin :
                    includes(libelle(entree.ligneGroupes, c), <<"s", "a", "t", "i", "s", "f", "a", "i", "s", "a", "n", "t">>)}
    IN  IF cols = {} THEN comp.colFin + 1
        ELSE CHOOSE c \in cols : \A d \in cols : c <= d

\* the columns among the n that follow "satisfaisant", itself included and
\* the span not left, whose percentage cell carries a marker
marqueurs(comp, n) ==
    {c \in colonneSatisfaisant(comp)..Min(colonneSatisfaisant(comp) + n, comp.colFin) :
        \E mot \in {<<"%">>, <<"r", "é", "p", "o", "n", "d", "a", "n", "t", "s">>, <<"r", "e", "p", "o", "n", "d", "a", "n", "t", "s">>} :
            includes(libelle(entree.lignePourcentages, c), mot)}

\* the resolved column of comp is the first marker found among the n columns
\* after "satisfaisant", and no marker further away is taken
resoluParMarqueur(comp, n) ==
    /\ marqueurs(comp, n) # {} =>
          /\ comp.colonne \in marqueurs(comp, n)
          /\ \A c \in marqueurs(comp, n) : comp.colonne <= c
    /\ marqueurs(comp, n) = {} => comp.colonne \notin marqueurs(comp, 2 * LargeurPlage)

resoluParLibelle(feuille, comp) ==
    \E r \in LigneLabelsDebut..LigneLabelsFin :
        LET avant == toLowerCase(texteCellule(feuille, r, comp.colonne - 1))
            ici == toLowerCase(texteCellule(feuille, r, comp.colonne))
        IN  \/ /\ comp.colonne > comp.colDebut
               /\ includes(avant, <<"s", "a", "t", "i", "s">>)
               /\ includes(avant, <<"n", "o", "m", "b", "r", "e">>)
            \/ /\ comp.colonne <= comp.colFin
               /\ includes(ici, <<"s", "a", "t", "i", "s">>)
               /\ includes(ici, <<"%">>) \/ includes(ici, <<"s", "u", "r", " ", "l", "e", " ", "n", "o", "m", "b", "r", "e">>)

plagesTitres ==
    { [colDebut |-> 2, colFin |-> 1 + LargeurPlage],
      [colDebut |-> 2 + LargeurPlage, colFin |-> 1 + 2 * LargeurPlage] }

\* the keyword search finds no percentage column in the span: no group cell
\* of the span holds "satisfaisant", or no percentage cell from that column
\* to the end of the span carries a marker
introuvable(plage) ==
    \/ colonneSatisfaisant(plage) > plage.colFin
    \/ marqueurs(plage, 2 * LargeurPlage) = {}

\* no cell of the rows 4 to 6 of the span of comp holds "satisfaisant"
sansLibelle(feuille, comp) ==
    \A r \in LigneLabelsDebut..LigneLabelsFin : \A c \in comp.colDebut..comp.colFin :
        ~includes(toLowerCase(texteCellule(feuille, r, c)), <<"s", "a", "t", "i", "s", "f", "a", "i", "s", "a", "n", "t">>)

\* C16: in both resolver modes, a span whose percentage column the keyword
\* search does not find (no "satisfaisant" label in the span, or no marker
\* after it) is still produced, and its resolved column is the last column
\* of the span.
C16_DefautFinDePlage ==
    /\ (entree.fn = "extraireCompetences" /\ sortie.fait) =>
          \A plage \in plagesTitres : introuvable(plage) =>
              \E k \in 1..Len(sortie.val) :
                  /\ sortie.val[k].colDebut = plage.colDebut
                  /\ sortie.val[k].colonne = plage.colFin
    /\ (entree.fn = "analyserStructureAvecFusions" /\ sortie.fait
            /\ entree.feuille.fusions # <<>>) =>
          /\ Len(sortie.val) = 2
          /\ \A k \in 1..Len(sortie.val) :
                sansLibelle(entree.feuille, sortie.val[k]) =>
                    sortie.val[k].colonne = sortie.val[k].colFin

\* the keys of a list of competencies, each with its value column
colonnesParCle(competences) ==
    { <<normaliserNomCompetence(competences[k].nom), competences[k].colonne>> :
        k \in 1..Len(competences) }

\* what the flat-file resolver yields on the rows of a sheet whose group row
\* and percentage row are found
competencesCSV(feuille) ==
    LET ligneGroupes == trouverLigneGroupes(feuille.lignes)
        lignePourcentages == trouverLignePourcentages(feuille.lignes, ligneGroupes)
    IN  extraireCompetences(Elt(feuille.lignes, LigneTitres),
                            Elt(feuille.lignes, ligneGroupes),
                            Elt(feuille.lignes, lignePourcentages))

ancresTrouvees(feuille) ==
    /\ trouverLigneGroupes(feuille.lignes) # NUL
    /\ trouverLignePourcentages(feuille.lignes,
                                trouverLigneGroupes(feuille.lignes)) # NUL

\* C17: on a regular sheet (every competency has the same width and the same
\* offset to the percentage of its satisfactory group) that carries its
\* merges, the anchor-scan resolvers (the classic method of the workbook
\* service, the flat-file resolver) yield the same keys as the merge-aware
\* resolver, each with the same value column.
C17_ResolveursEquivalents ==
    (entree.fn = "analyserStructureAvecFusions" /\ sortie.fait
        /\ entree.feuille.fusions # <<>>) =>
            /\ colonnesParCle(analyserStructureClassique(entree.feuille))
                  = colonnesParCle(sortie.val)
            /\ ancresTrouvees(entree.feuille) =>
                  colonnesParCle(competencesCSV(entree.feuille))
                      = colonnesParCle(sortie.val)

\* C18: a second call of loadEcoles on the same service, over the same
\* inputs, returns the registry the first call returned (the same schools
\* in the same order, with the same names, keys and values) and leaves the
\* same this.ecoles: nothing of the first call is added to the second.
C18_RelanceIdentique ==
    (premiere.faite /\ lpc = "retour") =>
        /\ retour = premiere.retour
        /\ ecoles = premiere.ecoles

\* C18, its case: the second call has returned, after two units that each
\* yielded records, a registry of several keys.
C18_Temoin ==
    /\ premiere.faite
    /\ lpc = "retour"
    /\ Len(partiels) = 2
    /\ partiels[1].ecoles # <<>>
    /\ partiels[2].ecoles # <<>>
    /\ Len(retour) > 0
    /\ Cardinality(DOMAIN retour[1].resultats) > 1

\* the two-letter code of a subject
codeMatiere(matiere) ==
    IF matiere = <<"f", "r", "a", "n", "c", "a", "i", "s">> THEN <<"f", "r">>
    ELSE IF matiere = <<"m", "a", "t", "h", "s">> THEN <<"m", "a">>
    ELSE <<"?", "?">>

\* "evaluation ", the lower-cased level and the code of the subject
jeton(unite) ==
    <<"e", "v", "a", "l", "u", "a", "t", "i", "o", "n", " ">> \o toLowerCase(unite.niveau) \o codeMatiere(unite.matiere)

\* a cell of the row holds the token, case ignored
porteJeton(ligne1, unite) ==
    /\ ligne1 # Indefini
    /\ \E c \in 1..Len(ligne1) :
          /\ ligne1[c] \notin {Nul, Indefini}
          /\ includes(toLowerCase(ligne1[c]), jeton(unite))

\* C19: validerIdentification returns true exactly when a cell of the first
\* row contains, case ignored, "evaluation " followed by the lower-cased
\* level and the code of the subject ("fr", "ma"); it returns false for a
\* missing or empty first row, and the first row of the file of one level
\* and subject is never accepted for another level or subject.
C19_IdentiteExacte ==
    (entree.fn = "validerIdentification" /\ sortie.fait) =>
        /\ sortie.val = porteJeton(entree.ligne1, configs[entree.config])
        /\ (entree.ligne1 = Indefini \/ entree.ligne1 = <<>>) => ~sortie.val
        /\ entree.origine # entree.config => ~sortie.val

\* C19, its case: a first row that holds the token in its second cell, in
\* capitals, has been accepted for its own configuration.
C19_Temoin ==
    /\ entree.fn = "validerIdentification"
    /\ sortie.fait
    /\ entree.origine = entree.config
    /\ entree.ligne1 # Indefini
    /\ Len(entree.ligne1) = 2
    /\ entree.ligne1[1] = Nul
    /\ sortie.val

\* the units processed so far, taken in the order ordre
reordonnes(ordre) == [k \in 1..Len(partiels) |-> partiels[ordre[k]]]

\* two registries hold the same schools, each with the same results map
memeContenu(reg1, reg2) ==
    /\ {reg1[m].uai : m \in 1..Len(reg1)} = {reg2[n].uai : n \in 1..Len(reg2)}
    /\ \A m \in 1..Len(reg1) : \A n \in 1..Len(reg2) :
          reg1[m].uai = reg2[n].uai => reg1[m].resultats = reg2[n].resultats

\* C20: whatever the order in which the lists of partial records of the
\* flat-file units are merged, each list as a whole, the registry holds the
\* schools and, for each school, the results map that the merge in the
\* order of the configurations gives.
C20_OrdreIndifferent ==
    client \in ClientsCSV =>
        \A ordre \in Permutations(Traitees) :
            memeContenu(registre(reordonnes(ordre)), ecolesMap)

\* C20, its case: two units yielded records for one school, and merging
\* them in the other order gives another sequence of records.
C20_Temoin ==
    /\ client \in ClientsCSV
    /\ Len(partiels) = 2
    /\ uaisUnite(1) \cap uaisUnite(2) # {}
    /\ registre(<<partiels[2], partiels[1]>>) # ecolesMap

\* ---------------------------------------------------------------------------
\* Categories, title test, spans, group row
\* ---------------------------------------------------------------------------

\* the thresholds of the exported README sheets and of the PDF legend, in points
SeuilDocumente == 5

\* the category the documentation gives to a gap between result and prediction
categorieDocumentee(ecart) ==
    IF ecart > SeuilDocumente * Echelle THEN "LEVIER"
    ELSE IF ecart < (0 - SeuilDocumente) * Echelle THEN "VIGILANCE"
    ELSE "CONFORME"

\* C21: categoriser, called with its default thresholds as analyserTout calls
\* it, gives LEVIER exactly when the result exceeds the IPS prediction by more
\* than 5 points, VIGILANCE exactly when it is more than 5 points below, and
\* CONFORME otherwise, as the README sheets and the PDF legend state.
C21_CategoriesDocumentees ==
    (entree.fn = "categoriser" /\ sortie.fait /\ ~sortie.val.nul) =>
        sortie.val.categorie_code = categorieDocumentee(sortie.val.ecart)

\* a title a resolver must refuse: shorter than LongueurMinTitre, or holding
\* one of the marker words, case ignored
titreRefuse(nom) ==
    \/ Len(nom) < LongueurMinTitre
    \/ \E mot \in MotsMarqueurs : includes(toLowerCase(nom), mot)

\* C22: in every resolver mode (merge-aware, its classic fallback, flat-file
\* anchor scan), no produced competency has a title shorter than 10
\* characters or a title holding, case ignored, one of the marker words
\* "compétence", "exercice", "participation", "scores".
C22_TitresFiltres ==
    (entree.fn \in {"extraireCompetences", "analyserStructureAvecFusions"}
        /\ sortie.fait) =>
            \A k \in 1..Len(sortie.val) : ~titreRefuse(sortie.val[k].nom)

\* C22 restricted to the modes that apply the test: the flat-file scan and
\* the merge-aware resolver, the classic method excepted
C22_HorsMethodeClassique ==
    (\/ entree.fn = "extraireCompetences"
     \/ /\ entree.fn = "analyserStructureAvecFusions"
        /\ competencesFusions(entree.feuille, fusionsLigne3(entree.feuille)) # <<>>)
    /\ sortie.fait =>
        \A k \in 1..Len(sortie.val) : ~titreRefuse(sortie.val[k].nom)

\* the cells of the title row handed to extraireCompetences that qualify:
\* their text, trimmed, is a title no resolver must refuse
qualifiantes ==
    { c \in 0..(Len(entree.ligne3) - 1) :
        ~titreRefuse(trim(OuVide(Elt(entree.ligne3, c)))) }

\* the column before the next qualifying cell after c, the last column of
\* the title row when there is none
finAttendue(c) ==
    LET suivantes == { d \in qualifiantes : d > c }
    IN  IF suivantes = {} THEN Len(entree.ligne3) - 1
        ELSE (CHOOSE d \in suivantes : \A e \in suivantes : d <= e) - 1

\* some group cell of the columns c..fin holds "satisfaisant": the span is
\* not dropped by finaliserCompetence
groupeDansPlage(c, fin) ==
    \E col \in c..fin :
        includes(toLowerCase(OuVide(Elt(entree.ligneGroupes, col))), <<"s", "a", "t", "i", "s", "f", "a", "i", "s", "a", "n", "t">>)

\* C23: in anchor-scan mode each span starts at a qualifying title cell and
\* ends at the column before the next qualifying cell (the last one at the
\* last column of the title row); the spans are disjoint and in increasing
\* column order; every qualifying cell opens a span, and a non-empty cell
\* that fails the competency test neither opens nor closes one.
C23_PlagesPartition ==
    (entree.fn = "extraireCompetences" /\ sortie.fait) =>
        /\ \A k \in 1..Len(sortie.val) :
              /\ sortie.val[k].colDebut \in qualifiantes
              /\ sortie.val[k].colFin = finAttendue(sortie.val[k].colDebut)
              /\ sortie.val[k].colDebut <= sortie.val[k].colFin
        /\ \A k \in 1..(Len(sortie.val) - 1) :
              sortie.val[k].colFin < sortie.val[k + 1].colDebut
        /\ \A c \in qualifiantes : groupeDansPlage(c, finAttendue(c)) =>
              \E k \in 1..Len(sortie.val) : sortie.val[k].colDebut = c

\* C23, its case: between two titles, a text too short and a column-category
\* header; the first span runs over both up to the column before the second
\* title.
C23_Temoin ==
    /\ entree.fn = "extraireCompetences"
    /\ sortie.fait
    /\ Len(entree.ligne3) = 6
    /\ entree.ligne3[3] = Titre1
    /\ entree.ligne3[4] = <<"L", "e", "c", "t", "u", "r", "e">>
    /\ entree.ligne3[5] = <<"S", "c", "o", "r", "e", "s", " ", "p", "a", "r", " ", "e", "x", "e", "r", "c", "i", "c", "e">>
    /\ entree.ligne3[6] = Titre2
    /\ Len(sortie.val) = 2
    /\ sortie.val[1].colDebut = 2 /\ sortie.val[1].colFin = 4
    /\ sortie.val[2].colDebut = 5 /\ sortie.val[2].colFin = 5

\* the row indices of 2..9, below the row count of the grid handed to
\* trouverLigneGroupes, one cell of which holds "satisfaisant", case ignored
lignesGroupesFenetre ==
    { i \in 2..9 :
        /\ i < Len(entree.lignes)
        /\ \E c \in 1..Len(entree.lignes[i + 1]) :
              includes(toLowerCase(OuVide(entree.lignes[i + 1][c])), <<"s", "a", "t", "i", "s", "f", "a", "i", "s", "a", "n", "t">>) }

\* C24: trouverLigneGroupes returns the smallest row index i with
\* 2 <= i <= 9, below the row count of the grid, one cell of which holds
\* "satisfaisant" case-insensitively, and null when there is no such row; a
\* match at row 0 or 1, or at row 10 or later, is never returned.
C24_FenetreGroupes ==
    (entree.fn = "trouverLigneGroupes" /\ sortie.fait) =>
        /\ lignesGroupesFenetre = {} => sortie.val = NUL
        /\ lignesGroupesFenetre # {} =>
              /\ sortie.val \in lignesGroupesFenetre
              /\ \A i \in lignesGroupesFenetre : sortie.val <= i

\* C24, its case: the label sits on rows 1 and 10 only and null is returned
C24_Temoin ==
    /\ entree.fn = "trouverLigneGroupes"
    /\ sortie.fait
    /\ Len(entree.lignes) = 12
    /\ { r \in 0..11 : entree.lignes[r + 1][1] = Nul } = {1, 10}
    /\ sortie.val = NUL

\* the groups under which the grouping query lists the key c
groupesDe(groupes, c) == { g \in DOMAIN groupes : c \in DOMAIN groupes[g] }

\* the group of the level and subject of configuration i
groupeUnite(i) == configs[i].niveau \o <<"_">> \o configs[i].matiere

\* C25: after any sequence of loadEcoles calls of the flat-file service,
\* getCompetencesParNiveauMatiere reflects the current registry only: the
\* union of its groups is the set of keys held by the records getEcoles
\* returns, every key is listed once, under the group of its own level and
\* subject, and no key of the call before that the current registry lacks
\* is listed.
C25_GroupesAJour ==
    client \in ClientsCSV =>
        LET groupes == getCompetencesParNiveauMatiere(ecoles)
            courantes == clesRegistre(getEcoles(ecoles))
        IN  /\ UNION { DOMAIN groupes[g] : g \in DOMAIN groupes } = courantes
            /\ \A g \in DOMAIN groupes : \A c \in DOMAIN groupes[g] :
                  /\ groupes[g][c] = 1
                  /\ groupesDe(groupes, c) = {g}
            /\ lpc = "retour" =>
                  \A i \in Traitees : \A a \in 1..Len(partiels[i].ecoles) :
                      \A c \in DOMAIN partiels[i].ecoles[a].resultats :
                          groupesDe(groupes, c) = {groupeUnite(i)}
            /\ \A c \in clesAnterieures \ courantes : groupesDe(groupes, c) = {}

\* C25, its case: a later call has returned a registry of two schools
\* sharing a key, that lacks a key of the call before and holds a key that
\* call did not yield; the query lists the group of the second unit only.
C25_Temoin ==
    /\ client \in ClientsCSV
    /\ lpc = "retour"
    /\ clesAnterieures \ clesRegistre(ecoles) # {}
    /\ clesRegistre(ecoles) \ clesAnterieures # {}
    /\ \E m, n \in 1..Len(ecoles) :
          /\ m # n
          /\ (DOMAIN ecoles[m].resultats) \cap (DOMAIN ecoles[n].resultats) # {}
    /\ DOMAIN getCompetencesParNiveauMatiere(ecoles) = {groupeUnite(2)}

\* the percentage row chargerFichierCSV detects in the file it is handed
lignePourcentagesFichier ==
    trouverLignePourcentages(entree.fichier.lignes,
                             trouverLigneGroupes(entree.fichier.lignes))

\* C26: in chargerFichierCSV the index from which the school rows are read
\* is strictly greater than the index of the detected percentage row, the
\* default of trouverPremiereEcole included: neither the title row, the
\* group row nor the percentage row is handed to extraireEcoles.
C26_DonneesApresPourcentages ==
    (entree.fn = "chargerFichierCSV" /\ sortie.fait /\ sortie.val.issue = "ok") =>
        /\ sortie.val.premiereLigne > lignePourcentagesFichier
        /\ Len(sortie.val.lignesEcoles)
              < Len(entree.fichier.lignes) - lignePourcentagesFichier

\* the registry loadEcoles builds from the records chargerFichierCSV returned
registreFichier == fusionner(<<>>, sortie.val.ecoles)

\* the test trouverPremiereEcole applies to the first data row, on a record
ficheEcole(fiche) ==
    /\ Len(fiche.uai) >= LongueurMinUAI
    /\ \A mot \in {<<"u", "a", "i">>, <<"t", "o", "t", "a", "l">>, <<"c", "i", "r", "c", "o", "n", "s", "c", "r", "i", "p", "t", "i", "o", "n">>} :
          ~includes(toLowerCase(fiche.uai), mot)
    /\ Len(fiche.nom) > 0

\* C27: every school id the registry holds after a flat-file load passes
\* the test applied to the first data row: at least 7 characters, none of
\* "uai", "total", "circonscription" (case ignored), and its record has a
\* name that is not empty.
C27_FichesEcoles ==
    (entree.fn = "chargerFichierCSV" /\ sortie.fait) =>
        \A m \in 1..Len(registreFichier) : ficheEcole(registreFichier[m])

\* the partial records of the unit a turn of the loop has just processed
fichesTour == partiels'[Len(partiels')].ecoles

\* a turn of the loop of loadEcoles that merges the records of one unit
tourDeFusion ==
    /\ lpc = "boucle"
    /\ lpc' = "boucle"
    /\ Len(partiels') = Len(partiels) + 1

\* what a turn of the loop leaves of the registry: no record is removed or
\* moved, a record keeps its id and its name, a record of a school the unit
\* has no partial record for is left as it was, and a record the turn
\* creates bears the name of the first partial record of its school
fusionLocale ==
    /\ Len(ecolesMap') >= Len(ecolesMap)
    /\ \A m \in 1..Len(ecolesMap) :
          /\ ecolesMap'[m].uai = ecolesMap[m].uai
          /\ ecolesMap'[m].nom = ecolesMap[m].nom
          /\ (\A a \in 1..Len(fichesTour) : fichesTour[a].uai # ecolesMap[m].uai)
                => ecolesMap'[m] = ecolesMap[m]
    /\ \A m \in (Len(ecolesMap) + 1)..Len(ecolesMap') :
          \E a \in 1..Len(fichesTour) :
              /\ fichesTour[a].uai = ecolesMap'[m].uai
              /\ fichesTour[a].nom = ecolesMap'[m].nom
              /\ \A b \in 1..(a - 1) : fichesTour[b].uai # ecolesMap'[m].uai

\* C28: merging a partial record into an existing school record changes
\* only the results map of that record: its id and its name stay those of
\* the first unit that created it, and the record of no other school is
\* modified.
C28_FusionLocale == [][tourDeFusion => fusionLocale]_vars

\* C28, its case: the second unit had a partial record, under another name,
\* for a school the first unit had created; the record bears the first name
\* and holds results of both units, beside the record of another school the
\* second unit has nothing for.
C28_Temoin ==
    /\ lpc = "boucle"
    /\ Len(partiels) = 2
    /\ \E m, n \in 1..Len(ecolesMap) :
          /\ m # n
          /\ \A b \in 1..Len(partiels[2].ecoles) :
                partiels[2].ecoles[b].uai # ecolesMap[n].uai
          /\ \E a \in 1..Len(partiels[1].ecoles), b \in 1..Len(partiels[2].ecoles) :
                /\ partiels[1].ecoles[a].uai = ecolesMap[m].uai
                /\ partiels[2].ecoles[b].uai = ecolesMap[m].uai
                /\ partiels[1].ecoles[a].nom # partiels[2].ecoles[b].nom
                /\ ecolesMap[m].nom = partiels[1].ecoles[a].nom
                /\ (DOMAIN partiels[2].ecoles[b].resultats)
                      \ (DOMAIN partiels[1].ecoles[a].resultats) # {}
                /\ (DOMAIN partiels[2].ecoles[b].resultats)
                      \subseteq DOMAIN ecolesMap[m].resultats

\* the file g is the file f: both absent, or the same content
memeFichier(f, g) ==
    /\ f.existe = g.existe
    /\ f.existe => (f.lisible = g.lisible /\ f.donnees = g.donnees)

\* a valid cache file that is not empty: recent, readable, holding records
fichierUtilisable(f) ==
    /\ f.existe
    /\ f.recent
    /\ f.lisible
    /\ Len(f.donnees) > 0

\* C29: whenever loadDepartementIPS returns, after any sequence of loads
\* and clears: a list returned that is not empty is the in-memory cache; an
\* empty list returned (the download failed or yielded nothing) leaves the
\* in-memory cache and the cache file as they were; and with forceRefresh
\* false and a valid cache file that is not empty the API is not contacted.
C29_CacheCoherent ==
    (entree.fn = "loadDepartementIPS" /\ sortie.fait) =>
        /\ Len(sortie.val) > 0 => ipsCache = CacheCharge(sortie.val)
        /\ Len(sortie.val) = 0 =>
              /\ ipsCache = entree.cacheAvant
              /\ memeFichier(cacheDisque, entree.disqueAvant)
        /\ (~entree.forceRefresh /\ fichierUtilisable(entree.disqueAvant)) =>
              /\ ~sortie.api
              /\ sortie.val = entree.disqueAvant.donnees

\* C29, its case: a cache was loaded, the file has grown old, and a load
\* whose download fails has returned the empty list
C29_Temoin ==
    /\ entree.fn = "loadDepartementIPS"
    /\ sortie.fait
    /\ Len(sortie.val) = 0
    /\ sortie.api
    /\ ~entree.forceRefresh
    /\ ipsCache.charge
    /\ cacheDisque.existe
    /\ ~cacheDisque.recent
    /\ Len(cacheDisque.donnees) > 0

\* C30: in the main of index_csv, once the extraction has yielded at least
\* one school and the IPS lookup getIPSBatch has run, an operation has
\* loaded the in-memory IPS cache before it: the lookup does not run against
\* a cache that is not loaded.
C30_CacheChargeAvantRecherche ==
    (client = "index_csv" /\ "ips" \in etapes /\ Len(retour) > 0) =>
        ipsCache.charge

=============================================================================
